---- MODULE Spec2Model ----
(***************************************************************************)
(* Model of the headless shell daemon and its session protocol             *)
(* (src/src/headlesh/src/lib.rs) and of the agent around it                *)
(* (src/hnt-agent/src/main.rs).                                            *)
(*                                                                         *)
(* The operating system is modelled as far as the code relies on it:       *)
(*   - pid.lock is a path that names an inode; flock locks belong to the   *)
(*     inode, not to the path, and survive an unlink of the path;          *)
(*   - cmd.fifo is a path that names a FIFO inode; an open for reading     *)
(*     blocks until there is a writer, an open for writing until there is  *)
(*     a reader; a read returns end-of-file when the buffer is empty and   *)
(*     no writer has the FIFO open; the buffer is discarded when the last  *)
(*     descriptor is closed;                                               *)
(*   - a shell redirection "> path" opens a FIFO at path for writing       *)
(*     (blocking until there is a reader) and creates a regular file when  *)
(*     nothing is at path.                                                 *)
(***************************************************************************)
EXTENDS Integers, Sequences, FiniteSets, TLC

\* ------------------------------------------------------------------ bounds
NDaemons == 3      \* daemon processes that may be spawned for the session id
NClients == 2      \* client processes (distinct pids)
MaxExecs == 2      \* exec / exec_captured calls in one behaviour
MaxExits == 1      \* exit calls in one behaviour
MaxCalls == MaxExecs + MaxExits
MaxFaults == 1     \* injected environment failures in one behaviour

Daemons == 1..NDaemons
Clients == 1..NClients
Kinds == {"out", "err", "status"}

VARIABLES
    sessDir,    \* <SESSION_DIR>/<session_id> exists
    created,    \* a Session value was returned by Session::create
    lockPath,   \* inode named by pid.lock (0: no such file)
    fifoPath,   \* FIFO inode named by cmd.fifo (0: no such file)
    dm,         \* daemon processes
    cmdBuf,     \* bytes buffered in each cmd.fifo inode
    cmdW,       \* clients that hold each cmd.fifo inode open for writing
    sh,         \* the shell subprocess of each daemon
    cl,         \* client processes
    pathObj,    \* what is at /tmp/headlesh_<kind>_<pid>
    calls,      \* the calls made so far
    rets,       \* what each call returned
    reads,      \* per daemon: the payload_str values it obtained
    handed,     \* per daemon: the commands written to the shell's stdin
    stWrites,   \* per call: integers written to the call's status FIFO
    faults,     \* environment failures injected so far
    ag,         \* the agent process (hnt-agent main)
    sx,         \* one exit status on its way from the shell to the agent
    ex,         \* one assistant response on its way to a command text
    ls,         \* one event stream of stream_llm_response
    cv,         \* one conversation directory
    pk,         \* one conversation packed into a prompt and parsed back
    ap,         \* the run of apply_changes (hnt-apply)
    pb,         \* one input on its way through parse_blocks (hnt-apply)
    ss,         \* one session directory under create, list and daemon start-up
    rsm,        \* one conversation directory as main finds it on resume
    sv,         \* one daemon in its serve loop, with the errors of its environment
    th,         \* one event stream rendered by generate (hnt-llm)
    es,         \* one text on its way through escape and unescape
    tw          \* two calls of one process on two sessions, and the paths under /tmp

dvars == <<sessDir, created, lockPath, fifoPath, dm, cmdBuf, cmdW, sh, cl,
           pathObj, calls, rets, reads, handed, stWrites, faults>>
fvars == <<ex, ls, cv, pk, ap, pb, ss, rsm, sv, th, es, tw>>
avars == <<ag, sx, fvars>>
vars == <<dvars, avars>>
\* what the steps on one of the library variables leave alone
others_ex == <<dvars, ag, sx, ls, cv, pk, ap, pb, ss, rsm, sv, th, es, tw>>
others_ls == <<dvars, ag, sx, ex, cv, pk, ap, pb, ss, rsm, sv, th, es, tw>>
others_cv == <<dvars, ag, sx, ex, ls, pk, ap, pb, ss, rsm, sv, th, es, tw>>
others_pk == <<dvars, ag, sx, ex, ls, cv, ap, pb, ss, rsm, sv, th, es, tw>>
others_ap == <<dvars, ag, sx, ex, ls, cv, pk, pb, ss, rsm, sv, th, es, tw>>
others_pb == <<dvars, ag, sx, ex, ls, cv, pk, ap, ss, rsm, sv, th, es, tw>>
others_ss == <<dvars, ag, sx, ex, ls, cv, pk, ap, pb, rsm, sv, th, es, tw>>
others_rsm == <<dvars, ag, sx, ex, ls, cv, pk, ap, pb, ss, sv, th, es, tw>>
others_sv == <<dvars, ag, sx, ex, ls, cv, pk, ap, pb, ss, rsm, th, es, tw>>
others_th == <<dvars, ag, sx, ex, ls, cv, pk, ap, pb, ss, rsm, sv, es, tw>>
others_es == <<dvars, ag, sx, ex, ls, cv, pk, ap, pb, ss, rsm, sv, th, tw>>
others_tw == <<dvars, ag, sx, ex, ls, cv, pk, ap, pb, ss, rsm, sv, th, es>>

\* ------------------------------------------------------------------- text
\* A text is a sequence of lines, a line a sequence of atoms.  No text of
\* the model ends with a newline, so appending joins the last line of the
\* first text with the first line of the second.
Cat(t, p) ==
    IF t = <<>> THEN p
    ELSE IF p = <<>> THEN t
    ELSE SubSeq(t, 1, Len(t) - 1) \o <<t[Len(t)] \o p[1]>> \o Tail(p)

HEADLESH_EXIT_CMD_PAYLOAD == <<"__HEADLESH_INTERNAL_EXIT_CMD__", 0>>
DevNull == <<"/dev/null", 0>>
FifoPathOf(kind, c) == <<kind, c>>          \* /tmp/headlesh_<kind>_<pid>
Script(k) == <<"script", k>>                \* the command text of call k

\* format!("{}\n{}\n{}\n{}", out, err, status, command)
ExecPayload(c, k) ==
    << <<FifoPathOf("out", c)>>, <<FifoPathOf("err", c)>>,
       <<FifoPathOf("status", c)>>, <<Script(k)>> >>

ExitPayload ==
    << <<DevNull>>, <<DevNull>>, <<DevNull>>, <<HEADLESH_EXIT_CMD_PAYLOAD>> >>

Payload(k) ==
    IF calls[k].kind = "exit" THEN ExitPayload
    ELSE ExecPayload(calls[k].client, k)

\* lines.next().unwrap_or("/dev/null") three times, the rest joined by "\n"
ParsePayload(p) ==
    [out    |-> IF Len(p) >= 1 THEN p[1] ELSE <<DevNull>>,
     err    |-> IF Len(p) >= 2 THEN p[2] ELSE <<DevNull>>,
     status |-> IF Len(p) >= 3 THEN p[3] ELSE <<DevNull>>,
     command |-> IF Len(p) >= 4 THEN SubSeq(p, 4, Len(p)) ELSE <<>>]

\* a daemon that does not know the sentinel
IsExitCmdNever(cmd) == FALSE

IsExitCmd(cmd) == cmd.command = << <<HEADLESH_EXIT_CMD_PAYLOAD>> >>

\* -------------------------------------------------- exit status as text
Digit(n) == CASE n = 0 -> "0" [] n = 1 -> "1" [] n = 2 -> "2" [] n = 3 -> "3"
              [] n = 4 -> "4" [] n = 5 -> "5" [] n = 6 -> "6" [] n = 7 -> "7"
              [] n = 8 -> "8" [] n = 9 -> "9"
DigitVal(ch) == CASE ch = "0" -> 0 [] ch = "1" -> 1 [] ch = "2" -> 2
                  [] ch = "3" -> 3 [] ch = "4" -> 4 [] ch = "5" -> 5
                  [] ch = "6" -> 6 [] ch = "7" -> 7 [] ch = "8" -> 8
                  [] ch = "9" -> 9 [] OTHER -> -1
IsSpace(ch) == ch \in {" ", "\n", "\t", "\r"}

RECURSIVE Dec(_)
Dec(n) == IF n < 10 THEN <<Digit(n)>> ELSE Append(Dec(n \div 10), Digit(n % 10))

\* what `echo $ec > "<status>"` writes
EchoStatus(ec) == Append(Dec(ec), "\n")

RECURSIVE TrimStart(_)
TrimStart(t) == IF t # <<>> /\ IsSpace(Head(t)) THEN TrimStart(Tail(t)) ELSE t
RECURSIVE TrimEnd(_)
TrimEnd(t) == IF t # <<>> /\ IsSpace(t[Len(t)])
              THEN TrimEnd(SubSeq(t, 1, Len(t) - 1)) ELSE t
Trim(t) == TrimEnd(TrimStart(t))

I32Max == 2147483647
RECURSIVE ParseDigits(_, _, _)
\* The digit loop of i32::from_str with its checked arithmetic (the value is
\* accumulated downwards for a negative number): [ok, v].
ParseDigits(t, acc, neg) ==
    IF t = <<>> THEN [ok |-> TRUE, v |-> acc]
    ELSE LET dv == DigitVal(Head(t)) IN
         IF dv < 0 THEN [ok |-> FALSE, v |-> 0]
         ELSE IF ~neg
              THEN IF acc > (I32Max - dv) \div 10 THEN [ok |-> FALSE, v |-> 0]
                   ELSE ParseDigits(Tail(t), acc * 10 + dv, neg)
              ELSE IF acc < (IF dv = 9 THEN -214748363 ELSE -214748364)
                   THEN [ok |-> FALSE, v |-> 0]
                   ELSE ParseDigits(Tail(t), acc * 10 - dv, neg)

\* str::parse::<i32>() as [ok, v]: optional sign, then one or more digits
ParseI32(t) ==
    LET neg  == t # <<>> /\ Head(t) = "-"
        body == IF t # <<>> /\ Head(t) \in {"-", "+"} THEN Tail(t) ELSE t
    IN IF body = <<>> THEN [ok |-> FALSE, v |-> 0]
       ELSE ParseDigits(body, 0, neg)

\* status_str.trim().parse::<i32>().unwrap_or(1)
ParseStatus(t) == LET p == ParseI32(Trim(t)) IN IF p.ok THEN p.v ELSE 1

\* std::process::ExitStatus::from_raw(raw) keeps the raw wait status; a wait
\* status denotes an exit iff its low seven bits are 0, the exit code is then
\* bits 8..15.  ExitStatusCode is Option<i32>: -1 stands for None.
ExitStatusFromRaw(raw) == raw
ExitStatusCode(st) == IF st % 128 = 0 THEN (st \div 256) % 256 ELSE -1
ExitStatusSuccess(st) == st = 0

\* ------------------------------------------------------------ the inputs
\* exit code of the script of call k, and of a command text
ScriptExit(k) == IF k % 2 = 0 THEN 0 ELSE 2
ExitCodeOf(command) ==
    LET last == command[Len(command)]
        atom == last[Len(last)]
    IN IF atom[1] = "script" THEN ScriptExit(atom[2]) ELSE 127

\* ---------------------------------------------------------------- Init
NoRet == [r |-> "none", stdout |-> <<>>, stderr |-> <<>>, exit_status |-> 0]
NoTarget == <<"none", 0, 0>>

AgentIdle == [pc |-> "idle"]
StatusIdle == [phase |-> "idle"]
ExtractIdle == [pc |-> "idle"]
StreamIdle == [pc |-> "idle"]
ChatIdle == [pc |-> "idle"]
PackIdle == [pc |-> "idle"]
ApplyIdle == [pc |-> "idle"]
ParseIdle == [pc |-> "idle"]
SessionIdle == [pc |-> "idle"]
ResumeIdle == [pc |-> "idle"]
ServeIdle == [pc |-> "idle"]
ThinkIdle == [pc |-> "idle"]
EscapeIdle == [pc |-> "idle"]
TwoIdle == [pc |-> "idle"]

\* The parts of the system a specification does not exercise stay idle.
LibIdle(S) ==
    /\ IF "ex" \in S THEN ex = ExtractIdle ELSE TRUE
    /\ IF "ls" \in S THEN ls = StreamIdle ELSE TRUE
    /\ IF "cv" \in S THEN cv = ChatIdle ELSE TRUE
    /\ IF "pk" \in S THEN pk = PackIdle ELSE TRUE
    /\ IF "ap" \in S THEN ap = ApplyIdle ELSE TRUE
    /\ IF "pb" \in S THEN pb = ParseIdle ELSE TRUE
    /\ IF "ss" \in S THEN ss = SessionIdle ELSE TRUE
    /\ IF "rsm" \in S THEN rsm = ResumeIdle ELSE TRUE
    /\ IF "sv" \in S THEN sv = ServeIdle ELSE TRUE
    /\ IF "th" \in S THEN th = ThinkIdle ELSE TRUE
    /\ IF "es" \in S THEN es = EscapeIdle ELSE TRUE
    /\ IF "tw" \in S THEN tw = TwoIdle ELSE TRUE
LibVars == {"ex", "ls", "cv", "pk", "ap", "pb", "ss", "rsm", "sv", "th", "es", "tw"}

InitDaemon ==
    /\ sessDir = FALSE
    /\ created = FALSE
    /\ lockPath = 0
    /\ fifoPath = 0
    /\ dm = [d \in Daemons |->
               [pc |-> "none", lockFd |-> 0, held |-> FALSE, fifo |-> 0,
                acc |-> <<>>, sawExit |-> FALSE, stTo |-> NoTarget]]
    /\ cmdBuf = [f \in Daemons |-> <<>>]
    /\ cmdW = [f \in Daemons |-> {}]
    /\ sh = [d \in Daemons |->
               [pc |-> "none", q |-> <<>>, env |-> <<>>,
                outTo |-> NoTarget, errTo |-> NoTarget, stTo |-> NoTarget]]
    /\ cl = [c \in Clients |->
               [pc |-> "idle", call |-> 0, fifo |-> 0,
                t |-> [k \in Kinds |-> "idle"],
                recv |-> [k \in Kinds |-> <<>>], stW |-> {}]]
    /\ pathObj = [c \in Clients |-> [k \in Kinds |-> 0]]
    /\ calls = <<>>
    /\ rets = [k \in 1..MaxCalls |-> NoRet]
    /\ reads = [d \in Daemons |-> <<>>]
    /\ handed = [d \in Daemons |-> <<>>]
    /\ stWrites = [k \in 1..MaxCalls |-> 0]
    /\ faults = 0

\* ------------------------------------------------------- operating system
\* Daemons that have a cmd.fifo inode open for reading.  A daemon blocked
\* in open() already counts as a reader of the inode.
Readers(f) == {d \in Daemons : dm[d].fifo = f /\ f # 0}

\* flock: is the lock of inode i held by a process other than d
LockedByOther(i, d) == \E e \in Daemons \ {d} : dm[e].held /\ dm[e].lockFd = i

\* The buffer of FIFO inode f after reader d / writer c closed it: it is
\* discarded with the last descriptor.
BufAfterClose(f, rs, ws, buf) == IF rs = {} /\ ws = {} THEN <<>> ELSE buf

\* ------------------------------------------------- Session::create / spawn
\* Session::create with a valid id: SessionAlreadyExists iff the directory
\* and pid.lock exist and try_lock_exclusive fails.
CreateSucceeds ==
    ~(sessDir /\ lockPath # 0 /\ LockedByOther(lockPath, 0))

create ==
    /\ CreateSucceeds
    /\ ~(sessDir /\ created)
    /\ sessDir' = TRUE
    /\ created' = TRUE
    /\ UNCHANGED avars
    /\ UNCHANGED <<lockPath, fifoPath, dm, cmdBuf, cmdW, sh, cl, pathObj,
                   calls, rets, reads, handed, stWrites, faults>>

\* list(): the session is reported iff pid.lock exists and cannot be locked.
list == IF sessDir /\ lockPath # 0 /\ LockedByOther(lockPath, 0)
        THEN {"session"} ELSE {}

\* Session::spawn: the double fork; the grandchild enters run_daemon.
spawn(d) ==
    /\ created
    /\ dm[d].pc = "none"
    /\ \A e \in Daemons : e < d => dm[e].pc \notin {"none", "start"}
    /\ dm' = [dm EXCEPT ![d].pc = "start"]
    /\ UNCHANGED avars
    /\ UNCHANGED <<sessDir, created, lockPath, fifoPath, cmdBuf, cmdW, sh, cl,
                   pathObj, calls, rets, reads, handed, stWrites, faults>>

\* ------------------------------------------------------------- run_daemon
\* File::create(&lock_path): creates the inode or opens the existing one.
run_daemon_create_lock(d) ==
    /\ dm[d].pc = "start"
    /\ lockPath' = IF lockPath = 0 THEN d ELSE lockPath
    /\ dm' = [dm EXCEPT ![d].pc = "lock", ![d].lockFd = lockPath']
    /\ UNCHANGED avars
    /\ UNCHANGED <<sessDir, created, fifoPath, cmdBuf, cmdW, sh, cl, pathObj,
                   calls, rets, reads, handed, stWrites, faults>>

\* file.lock_exclusive(): blocks while another process holds the inode's lock.
run_daemon_lock(d) ==
    /\ dm[d].pc = "lock"
    /\ ~LockedByOther(dm[d].lockFd, d)
    /\ dm' = [dm EXCEPT ![d].pc = "rmfifo", ![d].held = TRUE]
    /\ UNCHANGED avars
    /\ UNCHANGED <<sessDir, created, lockPath, fifoPath, cmdBuf, cmdW, sh, cl,
                   pathObj, calls, rets, reads, handed, stWrites, faults>>

\* if fifo_path.exists() { fs::remove_file(&fifo_path)?; }
run_daemon_rmfifo(d) ==
    /\ dm[d].pc = "rmfifo"
    /\ fifoPath' = 0
    /\ dm' = [dm EXCEPT ![d].pc = "mkfifo"]
    /\ UNCHANGED avars
    /\ UNCHANGED <<sessDir, created, lockPath, cmdBuf, cmdW, sh, cl, pathObj,
                   calls, rets, reads, handed, stWrites, faults>>

\* The daemon process ends with an error: its descriptors are closed and
\* its lock is released, the files stay.
Crashed(d) == [dm[d] EXCEPT !.pc = "crashed", !.held = FALSE, !.lockFd = 0,
                            !.fifo = 0, !.acc = <<>>]

\* mkfifo(&fifo_path, ..)?; then the shell is spawned with a piped stdin.
run_daemon_mkfifo(d) ==
    /\ dm[d].pc = "mkfifo"
    /\ IF fifoPath # 0
       THEN /\ dm' = [dm EXCEPT ![d] = Crashed(d)]
            /\ UNCHANGED <<fifoPath, cmdBuf, sh>>
       ELSE /\ fifoPath' = d
            /\ cmdBuf' = [cmdBuf EXCEPT ![d] = <<>>]
            /\ sh' = [sh EXCEPT ![d].pc = "idle"]
            /\ dm' = [dm EXCEPT ![d].pc = "open"]
    /\ UNCHANGED avars
    /\ UNCHANGED <<sessDir, created, lockPath, cmdW, cl, pathObj,
                   calls, rets, reads, handed, stWrites, faults>>

\* File::open(&fifo_path)?: blocks until a writer has the FIFO open.
run_daemon_open(d) ==
    /\ dm[d].pc = "open"
    /\ IF fifoPath = 0
       THEN dm' = [dm EXCEPT ![d] = Crashed(d)]
       ELSE dm' = [dm EXCEPT ![d].fifo = fifoPath,
                             ![d].pc = IF cmdW[fifoPath] # {} THEN "read"
                                       ELSE "open_wait"]
    /\ UNCHANGED avars
    /\ UNCHANGED <<sessDir, created, lockPath, fifoPath, cmdBuf, cmdW, sh, cl,
                   pathObj, calls, rets, reads, handed, stWrites, faults>>

\* read_to_string: one read() that finds bytes in the buffer.
run_daemon_read(d) ==
    /\ dm[d].pc = "read"
    /\ cmdBuf[dm[d].fifo] # <<>>
    /\ dm' = [dm EXCEPT ![d].acc = Cat(dm[d].acc, cmdBuf[dm[d].fifo])]
    /\ cmdBuf' = [cmdBuf EXCEPT ![dm[d].fifo] = <<>>]
    /\ UNCHANGED avars
    /\ UNCHANGED <<sessDir, created, lockPath, fifoPath, cmdW, sh, cl,
                   pathObj, calls, rets, reads, handed, stWrites, faults>>

\* history: the body of payload p (everything after the third line) is the
\* exit sentinel
HasExitBody(p) ==
    Len(p) = 4 /\ p[4] = <<HEADLESH_EXIT_CMD_PAYLOAD>>

\* read_to_string: the read() that returns end-of-file (no bytes, no writer).
\* An empty payload_str takes the `continue`, which closes the FIFO.
run_daemon_eof(d) ==
    LET f == dm[d].fifo IN
    /\ dm[d].pc = "read"
    /\ cmdBuf[f] = <<>>
    /\ cmdW[f] = {}
    /\ IF dm[d].acc = <<>>
       THEN /\ dm' = [dm EXCEPT ![d].pc = "open", ![d].fifo = 0]
            /\ UNCHANGED reads
       ELSE /\ dm' = [dm EXCEPT ![d].pc = "parsed",
                                ![d].sawExit = HasExitBody(dm[d].acc)]
            /\ reads' = [reads EXCEPT ![d] = Append(@, dm[d].acc)]
    /\ UNCHANGED avars
    /\ UNCHANGED <<sessDir, created, lockPath, fifoPath, cmdBuf, cmdW, sh, cl,
                   pathObj, calls, rets, handed, stWrites, faults>>

\* The FIFO descriptor (cmd_fifo_file) lives to the end of the loop body.
CloseCmdFifo(d) ==
    LET f == dm[d].fifo IN
    cmdBuf' = [cmdBuf EXCEPT ![f] = BufAfterClose(f, Readers(f) \ {d}, cmdW[f], @)]

\* shell_stdin.write_all(shell_cmd.as_bytes()): the pipe keeps the order of
\* the command lines.
WriteToShellStdin(q, cmd) == Append(q, cmd)

\* The payload is parsed.  The exit sentinel breaks the loop; any other
\* command is written to a temporary script and handed to the shell's stdin
\* (lines 365-389).  Creating the temporary script may fail.
run_daemon_dispatch(d) ==
    LET cmd == ParsePayload(dm[d].acc) IN
    /\ dm[d].pc = "parsed"
    /\ IF IsExitCmd(cmd)
       THEN /\ dm' = [dm EXCEPT ![d].pc = "exit_rmfifo", ![d].fifo = 0,
                                ![d].acc = <<>>]
            /\ CloseCmdFifo(d)
            /\ UNCHANGED <<sh, handed, faults>>
       ELSE \/ /\ sh' = [sh EXCEPT ![d].q = WriteToShellStdin(@, cmd)]
               /\ handed' = [handed EXCEPT ![d] =
                                Append(@, [idx |-> Len(reads[d]), cmd |-> cmd])]
               /\ dm' = [dm EXCEPT ![d].pc = "open", ![d].fifo = 0,
                                   ![d].acc = <<>>]
               /\ CloseCmdFifo(d)
               /\ UNCHANGED faults
            \/ /\ faults < MaxFaults
               /\ faults' = faults + 1
               /\ dm' = [dm EXCEPT ![d].pc = "w127"]
               /\ UNCHANGED <<sh, handed, cmdBuf>>
    /\ UNCHANGED avars
    /\ UNCHANGED <<sessDir, created, lockPath, fifoPath, cmdW, cl,
                   pathObj, calls, rets, reads, stWrites>>

\* What an open for writing of a per-request path reaches: the FIFO made by
\* call obj (obj > 0), a regular file (-1), or a path outside the model.
Target(line) ==
    IF Len(line) = 1 /\ line[1][1] \in Kinds
    THEN <<line[1][1], line[1][2], pathObj[line[1][2]][line[1][1]]>>
    ELSE <<"sink", 0, 0>>
IsFifo(tg) == tg[1] \in Kinds /\ tg[3] > 0
\* the open blocks until the client reads the FIFO
CanOpenFifoW(tg) == IsFifo(tg) => cl[tg[2]].t[tg[1]] = "wait"

\* The status FIFO of a call may have several writers.  An open for writing
\* of the FIFO made by call tg[3] makes w a writer of it, also while the open
\* still blocks; a regular file is created when nothing is at the path.
OpenStatusW(w, tg) ==
    /\ cl' = IF IsFifo(tg) THEN [cl EXCEPT ![tg[2]].stW = @ \cup {w}] ELSE cl
    /\ pathObj' = IF tg[1] \in Kinds /\ tg[3] = 0 /\ w[1] = "sh"
                  THEN [pathObj EXCEPT ![tg[2]][tg[1]] = -1] ELSE pathObj

\* The open returns once the client has the FIFO open for reading ...
StatusReaderOpen(tg) ==
    cl[tg[2]].call = tg[3] /\ cl[tg[2]].pc = "status"
\* ... and what is written after the reader has gone is lost (EPIPE).
StatusReaderGone(tg) == rets[tg[3]].r # "none"

\* Writer w writes text to the status file it opened and closes it.
WriteStatus(w, tg, chunk) ==
    IF IsFifo(tg) /\ StatusReaderOpen(tg)
    THEN /\ cl' = [cl EXCEPT ![tg[2]].t["status"] = "done",
                             ![tg[2]].recv["status"] = Append(@, chunk),
                             ![tg[2]].stW = @ \ {w}]
         /\ stWrites' = [stWrites EXCEPT ![tg[3]] = @ + 1]
    ELSE UNCHANGED <<cl, stWrites>>

\* Handing the script failed: File::options().write(true).open(status)
\* (line 393) ...
run_daemon_w127_open(d) ==
    LET cmd == ParsePayload(dm[d].acc)
        tg  == Target(cmd.status)
    IN
    /\ dm[d].pc = "w127"
    /\ dm' = [dm EXCEPT ![d].pc = "w127_write", ![d].stTo = tg]
    /\ OpenStatusW(<<"dm", d>>, tg)
    /\ UNCHANGED avars
    /\ UNCHANGED <<sessDir, created, lockPath, fifoPath, cmdBuf, cmdW, sh,
                   calls, rets, reads, handed, stWrites, faults>>

\* ... and write_all(b"127") (lines 394-400); then the loop body ends.
run_daemon_w127(d) ==
    LET cmd == ParsePayload(dm[d].acc)
        tg  == dm[d].stTo
    IN
    /\ dm[d].pc = "w127_write"
    /\ IsFifo(tg) => (StatusReaderOpen(tg) \/ StatusReaderGone(tg))
    /\ WriteStatus(<<"dm", d>>, tg,
                   [text |-> <<"1", "2", "7">>, n |-> 0,
                    command |-> cmd.command, shell |-> d, env |-> <<>>])
    /\ dm' = [dm EXCEPT ![d].pc = "open", ![d].fifo = 0, ![d].acc = <<>>,
                        ![d].stTo = NoTarget]
    /\ CloseCmdFifo(d)
    /\ UNCHANGED avars
    /\ UNCHANGED <<sessDir, created, lockPath, fifoPath, cmdW, sh,
                   pathObj, calls, rets, reads, handed, faults>>

\* After the loop: let _ = fs::remove_file(&fifo_path);
run_daemon_exit_rmfifo(d) ==
    /\ dm[d].pc = "exit_rmfifo"
    /\ fifoPath' = 0
    /\ dm' = [dm EXCEPT ![d].pc = "exit_rmlock"]
    /\ UNCHANGED avars
    /\ UNCHANGED <<sessDir, created, lockPath, cmdBuf, cmdW, sh, cl, pathObj,
                   calls, rets, reads, handed, stWrites, faults>>

\* let _ = fs::remove_file(&lock_path);
run_daemon_exit_rmlock(d) ==
    /\ dm[d].pc = "exit_rmlock"
    /\ lockPath' = 0
    /\ dm' = [dm EXCEPT ![d].pc = "exit_return"]
    /\ UNCHANGED avars
    /\ UNCHANGED <<sessDir, created, fifoPath, cmdBuf, cmdW, sh, cl, pathObj,
                   calls, rets, reads, handed, stWrites, faults>>

\* Ok(()) and std::process::exit(0): _lock_file is dropped, the lock released.
run_daemon_exit_return(d) ==
    /\ dm[d].pc = "exit_return"
    /\ dm' = [dm EXCEPT ![d].pc = "exited", ![d].held = FALSE, ![d].lockFd = 0]
    /\ UNCHANGED avars
    /\ UNCHANGED <<sessDir, created, lockPath, fifoPath, cmdBuf, cmdW, sh, cl,
                   pathObj, calls, rets, reads, handed, stWrites, faults>>

\* ------------------------------------------------------- the shell process
\* `. "<tmp>"` runs the script in the shell itself: what it leaves behind
\* (cwd, variables, functions) is the shell's state for the next script.
EnvAfter(env, command) == Append(env, command)

\* The shell reads the next command line and opens the redirection > "<out>".
shell_open_out(d) ==
    LET cmd == Head(sh[d].q)
        tg  == Target(cmd.out)
    IN
    /\ sh[d].pc = "idle"
    /\ sh[d].q # <<>>
    /\ CanOpenFifoW(tg)
    /\ sh' = [sh EXCEPT ![d].pc = "out", ![d].outTo = tg]
    /\ cl' = IF IsFifo(tg) THEN [cl EXCEPT ![tg[2]].t[tg[1]] = "open"] ELSE cl
    /\ pathObj' = IF tg[1] \in Kinds /\ tg[3] = 0
                  THEN [pathObj EXCEPT ![tg[2]][tg[1]] = -1] ELSE pathObj
    /\ UNCHANGED avars
    /\ UNCHANGED <<sessDir, created, lockPath, fifoPath, dm, cmdBuf, cmdW,
                   calls, rets, reads, handed, stWrites, faults>>

\* ... and the redirection 2> "<err>".
shell_open_err(d) ==
    LET cmd == Head(sh[d].q)
        tg  == Target(cmd.err)
    IN
    /\ sh[d].pc = "out"
    /\ CanOpenFifoW(tg)
    /\ sh' = [sh EXCEPT ![d].pc = "err", ![d].errTo = tg]
    /\ cl' = IF IsFifo(tg) THEN [cl EXCEPT ![tg[2]].t[tg[1]] = "open"] ELSE cl
    /\ pathObj' = IF tg[1] \in Kinds /\ tg[3] = 0
                  THEN [pathObj EXCEPT ![tg[2]][tg[1]] = -1] ELSE pathObj
    /\ UNCHANGED avars
    /\ UNCHANGED <<sessDir, created, lockPath, fifoPath, dm, cmdBuf, cmdW,
                   calls, rets, reads, handed, stWrites, faults>>

\* The script runs to its end; its output goes to the two opened files, which
\* are then closed, so that the readers see end-of-file.
shell_run(d) ==
    LET cmd == Head(sh[d].q)
        o   == sh[d].outTo
        e   == sh[d].errTo
        chunk(via) == [text |-> <<via>>, n |-> Len(sh[d].env) + 1,
                       command |-> cmd.command, shell |-> d,
                       env |-> sh[d].env]
        hit(c, K, tg) == IsFifo(tg) /\ tg[1] = K /\ tg[2] = c
    IN
    /\ sh[d].pc = "err"
    /\ sh' = [sh EXCEPT ![d].pc = "ran", ![d].env = EnvAfter(@, cmd.command),
                        ![d].outTo = NoTarget, ![d].errTo = NoTarget]
    /\ cl' = [c \in Clients |->
               [cl[c] EXCEPT
                  !.t = [K \in Kinds |->
                           IF hit(c, K, o) \/ hit(c, K, e) THEN "done"
                           ELSE cl[c].t[K]],
                  !.recv = [K \in Kinds |->
                           IF hit(c, K, o) THEN chunk("stdout")
                           ELSE IF hit(c, K, e) THEN chunk("stderr")
                           ELSE cl[c].recv[K]]]]
    /\ UNCHANGED avars
    /\ UNCHANGED <<sessDir, created, lockPath, fifoPath, dm, cmdBuf, cmdW,
                   pathObj, calls, rets, reads, handed, stWrites, faults>>

\* ec=$?; echo $ec > "<status>": the open of the redirection ...
shell_open_status(d) ==
    LET cmd == Head(sh[d].q)
        tg  == Target(cmd.status)
    IN
    /\ sh[d].pc = "ran"
    /\ sh' = [sh EXCEPT ![d].pc = "status", ![d].stTo = tg]
    /\ OpenStatusW(<<"sh", d>>, tg)
    /\ UNCHANGED avars
    /\ UNCHANGED <<sessDir, created, lockPath, fifoPath, dm, cmdBuf, cmdW,
                   calls, rets, reads, handed, stWrites, faults>>

\* ... and the write of the status; rm -f "<tmp>"
shell_status(d) ==
    LET cmd == Head(sh[d].q)
        tg  == sh[d].stTo
    IN
    /\ sh[d].pc = "status"
    /\ IsFifo(tg) => (StatusReaderOpen(tg) \/ StatusReaderGone(tg))
    /\ sh' = [sh EXCEPT ![d].pc = "idle", ![d].q = Tail(@),
                        ![d].stTo = NoTarget]
    /\ WriteStatus(<<"sh", d>>, tg,
                   [text |-> EchoStatus(ExitCodeOf(cmd.command)),
                    n |-> Len(sh[d].env), command |-> cmd.command,
                    shell |-> d, env |-> <<>>])
    /\ UNCHANGED avars
    /\ UNCHANGED <<sessDir, created, lockPath, fifoPath, dm, cmdBuf, cmdW,
                   pathObj, calls, rets, reads, handed, faults>>

\* --------------------------------------------------------------- clients
IdleClient == [pc |-> "idle", call |-> 0, fifo |-> 0,
               t |-> [k \in Kinds |-> "idle"],
               recv |-> [k \in Kinds |-> <<>>], stW |-> {}]
ErrRet(why) == [r |-> why, stdout |-> <<>>, stderr |-> <<>>, exit_status |-> 0]

\* The client processes are alike: their pids come into use in order.
InOrderOfPids(c) ==
    \A e \in Clients : e < c => \E k \in 1..Len(calls) : calls[k].client = e

\* the calls of one kind made so far
NCalls(kind) == Cardinality({k \in 1..Len(calls) : calls[k].kind = kind})

\* a cleaner that removes nothing
FifoCleanerForget(objs) == objs

\* FifoCleaner::drop: every path of the triple that exists is removed.
CleanerPaths == {"out", "err", "status"}
FifoCleanerDrop(objs) ==
    [K \in Kinds |-> IF K \in CleanerPaths THEN 0 ELSE objs[K]]

\* exec / exec_captured up to the SessionNotFound check (lines 146-149).
exec_captured_start(c) ==
    LET k == Len(calls) + 1 IN
    /\ cl[c].pc = "idle"
    /\ NCalls("exec") < MaxExecs
    /\ InOrderOfPids(c)
    /\ calls' = Append(calls, [client |-> c, kind |-> "exec"])
    /\ IF ~sessDir
       THEN /\ rets' = [rets EXCEPT ![k] = ErrRet("SessionNotFound")]
            /\ UNCHANGED cl
       ELSE /\ cl' = [cl EXCEPT ![c].pc = "mkfifo", ![c].call = k]
            /\ UNCHANGED rets
    /\ UNCHANGED avars
    /\ UNCHANGED <<sessDir, created, lockPath, fifoPath, dm, cmdBuf, cmdW, sh,
                   pathObj, reads, handed, stWrites, faults>>

\* The FIFOs that the three mkfifo calls create before the first one fails
\* (EEXIST when something is at the path).
RECURSIVE MkfifoUntil(_, _, _)
MkfifoUntil(c, order, n) ==
    IF order = <<>> \/ n = 0 \/ pathObj[c][Head(order)] # 0 THEN {}
    ELSE {Head(order)} \cup MkfifoUntil(c, Tail(order), n - 1)

\* The cleaner is registered, then mkfifo out, err, status (lines 156-166).
exec_captured_mkfifo(c) ==
    LET k == cl[c].call IN
    /\ cl[c].pc = "mkfifo"
    /\ \E n \in 0..3 :
         LET made == MkfifoUntil(c, <<"out", "err", "status">>, n) IN
         /\ n < 3 => /\ faults < MaxFaults
                     /\ Cardinality(made) = n
         /\ faults' = IF n < 3 THEN faults + 1 ELSE faults
         /\ IF Cardinality(made) = 3
            THEN /\ pathObj' = [pathObj EXCEPT ![c] = [K \in Kinds |-> k]]
                 /\ cl' = [cl EXCEPT ![c].pc = "open_cmd"]
                 /\ UNCHANGED rets
            ELSE /\ pathObj' = [pathObj EXCEPT ![c] = FifoCleanerDrop(
                                [K \in Kinds |-> IF K \in made THEN k
                                                 ELSE pathObj[c][K]])]
                 /\ cl' = [cl EXCEPT ![c] = IdleClient]
                 /\ rets' = [rets EXCEPT ![k] = ErrRet("Nix")]
    /\ UNCHANGED avars
    /\ UNCHANGED <<sessDir, created, lockPath, fifoPath, dm, cmdBuf, cmdW, sh,
                   calls, reads, handed, stWrites>>

\* Session::exit up to the SessionNotFound check (lines 219-229).
exit_start(c) ==
    LET k == Len(calls) + 1 IN
    /\ cl[c].pc = "idle"
    /\ NCalls("exit") < MaxExits
    /\ InOrderOfPids(c)
    /\ calls' = Append(calls, [client |-> c, kind |-> "exit"])
    /\ IF fifoPath = 0
       THEN /\ rets' = [rets EXCEPT ![k] = ErrRet("SessionNotFound")]
            /\ UNCHANGED cl
       ELSE /\ cl' = [cl EXCEPT ![c].pc = "open_cmd", ![c].call = k]
            /\ UNCHANGED rets
    /\ UNCHANGED avars
    /\ UNCHANGED <<sessDir, created, lockPath, fifoPath, dm, cmdBuf, cmdW, sh,
                   pathObj, reads, handed, stWrites, faults>>

\* File::options().write(true).open(&fifo_path): an error when the path is
\* absent, else the open blocks until a daemon reads the FIFO; the daemons
\* blocked in their open of the same inode return from it.
open_cmd_fifo(c) ==
    LET k == cl[c].call IN
    /\ cl[c].pc = "open_cmd"
    /\ IF fifoPath = 0
       THEN /\ cl' = [cl EXCEPT ![c] = IdleClient]
            /\ rets' = [rets EXCEPT ![k] = ErrRet("Io")]
            /\ pathObj' = IF calls[k].kind = "exec"
                          THEN [pathObj EXCEPT ![c] = FifoCleanerDrop(pathObj[c])]
                          ELSE pathObj
            /\ UNCHANGED <<dm, cmdW>>
       ELSE /\ Readers(fifoPath) # {}
            /\ cmdW' = [cmdW EXCEPT ![fifoPath] = @ \cup {c}]
            /\ dm' = [d \in Daemons |->
                        IF dm[d].fifo = fifoPath /\ dm[d].pc = "open_wait"
                        THEN [dm[d] EXCEPT !.pc = "read"] ELSE dm[d]]
            /\ cl' = [cl EXCEPT ![c].pc = "write", ![c].fifo = fifoPath]
            /\ UNCHANGED <<rets, pathObj>>
    /\ UNCHANGED avars
    /\ UNCHANGED <<sessDir, created, lockPath, fifoPath, cmdBuf, sh,
                   calls, reads, handed, stWrites, faults>>

\* fifo_file.write_all(payload.as_bytes())?, then the descriptor is dropped.
\* The write fails (EPIPE) when no reader is left.  After it exit returns
\* Ok; exec_captured spawns the two tasks that open and drain the stdout
\* and stderr FIFOs (lines 184-198).
write_payload(c) ==
    LET k == cl[c].call
        f == cl[c].fifo
    IN
    /\ cl[c].pc = "write"
    /\ cmdW' = [cmdW EXCEPT ![f] = @ \ {c}]
    /\ IF Readers(f) = {}
       THEN /\ cmdBuf' = [cmdBuf EXCEPT ![f] =
                             BufAfterClose(f, {}, cmdW[f] \ {c}, @)]
            /\ cl' = [cl EXCEPT ![c] = IdleClient]
            /\ rets' = [rets EXCEPT ![k] = ErrRet("Io")]
            /\ pathObj' = IF calls[k].kind = "exec"
                          THEN [pathObj EXCEPT ![c] = FifoCleanerDrop(pathObj[c])]
                          ELSE pathObj
       ELSE /\ cmdBuf' = [cmdBuf EXCEPT ![f] = Cat(@, Payload(k))]
            /\ IF calls[k].kind = "exit"
               THEN /\ cl' = [cl EXCEPT ![c] = IdleClient]
                    /\ rets' = [rets EXCEPT ![k] = [NoRet EXCEPT !.r = "Ok"]]
               ELSE /\ cl' = [cl EXCEPT ![c].pc = "outputs", ![c].fifo = 0,
                                        ![c].t["out"] = "wait",
                                        ![c].t["err"] = "wait"]
                    /\ UNCHANGED rets
            /\ UNCHANGED pathObj
    /\ UNCHANGED avars
    /\ UNCHANGED <<sessDir, created, lockPath, fifoPath, dm, sh,
                   calls, reads, handed, stWrites, faults>>

\* out_handle.await, err_handle.await, then the open of the status FIFO.
exec_captured_join(c) ==
    /\ cl[c].pc = "outputs"
    /\ cl[c].t["out"] = "done"
    /\ cl[c].t["err"] = "done"
    /\ cl' = [cl EXCEPT ![c].pc = "status", ![c].t["status"] = "wait"]
    /\ UNCHANGED avars
    /\ UNCHANGED <<sessDir, created, lockPath, fifoPath, dm, cmdBuf, cmdW, sh,
                   pathObj, calls, rets, reads, handed, stWrites, faults>>

\* tokio::fs::File::open(&status_fifo_path).await? or read_to_string(..)?
\* fails.
exec_captured_status_fails(c) ==
    /\ cl[c].pc = "status"
    /\ faults < MaxFaults
    /\ faults' = faults + 1
    /\ cl' = [cl EXCEPT ![c] = IdleClient]
    /\ rets' = [rets EXCEPT ![cl[c].call] = ErrRet("Io")]
    /\ pathObj' = [pathObj EXCEPT ![c] = FifoCleanerDrop(pathObj[c])]
    /\ UNCHANGED avars
    /\ UNCHANGED <<sessDir, created, lockPath, fifoPath, dm, cmdBuf, cmdW, sh,
                   calls, reads, handed, stWrites>>

\* read_to_string on the status FIFO: what the writers wrote, up to the
\* end-of-file that comes when the last writer has closed.
RECURSIVE StatusText(_)
StatusText(chunks) ==
    IF chunks = <<>> THEN <<>> ELSE Head(chunks).text \o StatusText(Tail(chunks))

\* The status text is parsed; Ok(ExecOutput { .. }) (lines 207-214).
exec_captured_return(c) ==
    /\ cl[c].pc = "status"
    /\ cl[c].t["status"] = "done"
    /\ cl[c].stW = {}
    /\ rets' = [rets EXCEPT ![cl[c].call] =
                  [r |-> "Ok", stdout |-> cl[c].recv["out"],
                   stderr |-> cl[c].recv["err"],
                   exit_status |->
                     ExitStatusFromRaw(ParseStatus(StatusText(cl[c].recv["status"])))]]
    /\ cl' = [cl EXCEPT ![c] = IdleClient]
    /\ pathObj' = [pathObj EXCEPT ![c] = FifoCleanerDrop(pathObj[c])]
    /\ UNCHANGED avars
    /\ UNCHANGED <<sessDir, created, lockPath, fifoPath, dm, cmdBuf, cmdW, sh,
                   calls, reads, handed, stWrites, faults>>

\* ------------------------------------------------------------------ Spec
Next ==
    \/ create
    \/ \E d \in Daemons :
         \/ spawn(d)
         \/ run_daemon_create_lock(d)
         \/ run_daemon_lock(d)
         \/ run_daemon_rmfifo(d)
         \/ run_daemon_mkfifo(d)
         \/ run_daemon_open(d)
         \/ run_daemon_read(d)
         \/ run_daemon_eof(d)
         \/ run_daemon_dispatch(d)
         \/ run_daemon_w127_open(d)
         \/ run_daemon_w127(d)
         \/ run_daemon_exit_rmfifo(d)
         \/ run_daemon_exit_rmlock(d)
         \/ run_daemon_exit_return(d)
         \/ shell_open_out(d)
         \/ shell_open_err(d)
         \/ shell_run(d)
         \/ shell_open_status(d)
         \/ shell_status(d)
    \/ \E c \in Clients :
         \/ exec_captured_start(c)
         \/ exec_captured_mkfifo(c)
         \/ exit_start(c)
         \/ open_cmd_fifo(c)
         \/ write_payload(c)
         \/ exec_captured_join(c)
         \/ exec_captured_status_fails(c)
         \/ exec_captured_return(c)

Init == InitDaemon /\ ag = AgentIdle /\ sx = StatusIdle /\ LibIdle(LibVars)
Spec == Init /\ [][Next]_vars

\* =================================================================== claims
Serving == {"open", "open_wait", "read", "parsed", "w127", "w127_write"}
\* a daemon that holds the lock it took on pid.lock and is in its serve loop
Live(d) == dm[d].held /\ dm[d].pc \in Serving

\* C1: at any time at most one daemon process holds the lock on the session's
\* pid.lock and serves its cmd.fifo.
C1_AtMostOneLiveDaemon ==
    Cardinality({d \in Daemons : Live(d)}) <= 1

\* the scripts handed to the shell of daemon d, in the order of the hand-over
HandedCommands(d) == [i \in 1..Len(handed[d]) |-> handed[d][i].cmd.command]

\* command is among the scripts that ran before, in the same shell
InEnv(command, env) == \E i \in 1..Len(env) : env[i] = command

\* C2: of two calls that one client made one after the other on the session
\* and that returned Ok, the later script ran in the shell process of the
\* earlier one and in the state the earlier one left behind, unless the
\* daemon of the earlier one has been told to exit in between.
C2_ShellStatePersists ==
    \A k1, k2 \in 1..Len(calls) :
        (/\ k1 < k2
         /\ calls[k1].client = calls[k2].client
         /\ rets[k1].r = "Ok" /\ rets[k1].stdout # <<>>
         /\ rets[k2].r = "Ok" /\ rets[k2].stdout # <<>>)
        => \/ /\ rets[k1].stdout.shell = rets[k2].stdout.shell
              /\ InEnv(rets[k1].stdout.command, rets[k2].stdout.env)
           \/ dm[rets[k1].stdout.shell].sawExit

\* the output r reached a FIFO of call k only if it is output of the command
\* that call k's payload carried
OwnOutput(r, k) == r # <<>> => r.command[1][1] = Script(k)

\* the commands in the shell's stdin whose script has not run yet
NotYetRun(d) ==
    IF sh[d].pc \in {"ran", "status"} THEN Tail(sh[d].q) ELSE sh[d].q

\* C3: a daemon hands the scripts to its shell in the order in which it read
\* their payloads, the shell runs them in that order one after another, and
\* the bytes of a command reach only the FIFOs named in its own payload.
C3_InOrderNoInterleaving ==
    /\ \A d \in Daemons :
          /\ \A i \in 1..Len(handed[d]) :
                /\ handed[d][i].cmd = ParsePayload(reads[d][handed[d][i].idx])
                /\ i > 1 => handed[d][i - 1].idx < handed[d][i].idx
          /\ sh[d].env \o [i \in 1..Len(NotYetRun(d)) |-> NotYetRun(d)[i].command]
                = HandedCommands(d)
          /\ \A tg \in {sh[d].outTo, sh[d].errTo} :
                IsFifo(tg) => Head(sh[d].q).command[1][1] = Script(tg[3])
    /\ \A c \in Clients :
          /\ \A K \in {"out", "err"} : OwnOutput(cl[c].recv[K], cl[c].call)
          /\ \A i \in 1..Len(cl[c].recv["status"]) :
                OwnOutput(cl[c].recv["status"][i], cl[c].call)
    /\ \A k \in 1..MaxCalls :
          OwnOutput(rets[k].stdout, k) /\ OwnOutput(rets[k].stderr, k)

\* C4: every payload a daemon obtains from one open / read-to-EOF cycle is
\* exactly the payload written by one client call.
C4_PayloadIsOneRecord ==
    \A d \in Daemons : \A i \in 1..Len(reads[d]) :
        \E k \in 1..Len(calls) : reads[d][i] = Payload(k)

\* how often the payload of call k was obtained by a daemon
Delivered(k) ==
    Cardinality({x \in Daemons \X (1..MaxCalls) :
        /\ x[2] <= Len(reads[x[1]])
        /\ \E i \in 1..Len(reads[x[1]][x[2]]) :
             \E j \in 1..Len(reads[x[1]][x[2]][i]) :
                reads[x[1]][x[2]][i][j] = Script(k)})

\* C5: for every exec_captured call that returned Ok, exactly one payload was
\* delivered to the daemon, exactly one integer was written to the call's
\* status FIFO, and none of its three FIFOs exists any more.
C5_OkCallExactlyOnce ==
    \A k \in 1..Len(calls) :
        (calls[k].kind = "exec" /\ rets[k].r = "Ok") =>
            /\ Delivered(k) = 1
            /\ stWrites[k] = 1
            /\ \A K \in Kinds : pathObj[calls[k].client][K] # k

\* C6: after exec / exec_captured returned, on whatever path, none of the
\* FIFOs that the call created is left on disk.
C6_NoFifoLeftAfterReturn ==
    \A k \in 1..Len(calls) :
        (calls[k].kind = "exec" /\ rets[k].r # "none") =>
            \A c \in Clients : \A K \in Kinds : pathObj[c][K] # k

\* a call that failed after it had made its FIFOs and sent its payload
C6_Witness ==
    \E k \in 1..Len(calls) :
        /\ calls[k].kind = "exec" /\ rets[k].r = "Io"
        /\ Delivered(k) = 1

StatusTexts ==
    {<<>>, <<"\n">>, <<"a", "b", "c">>, <<"1", "2", "x">>, <<"-">>,
     <<"1", " ", "2">>, <<"9", "9", "9", "9", "9", "9", "9", "9", "9", "9">>}

InitStatus ==
    /\ InitDaemon
    /\ LibIdle(LibVars)
    /\ ag = AgentIdle
    /\ sx \in [phase : {"shell"}, s : 0..255, text : {<<>>},
               exit_status : {0}, exit_code : {0}]
              \cup [phase : {"fifo"}, s : {-1}, text : StatusTexts,
                    exit_status : {0}, exit_code : {0}]

\* ec=$?; echo $ec > "<status>"
status_echo ==
    /\ sx.phase = "shell"
    /\ sx' = [sx EXCEPT !.phase = "fifo", !.text = EchoStatus(sx.s)]
    /\ UNCHANGED <<dvars, ag, fvars>>

\* let exit_code = status_str.trim().parse::<i32>().unwrap_or(1);
\* let exit_status = std::process::ExitStatus::from_raw(exit_code);
status_parse ==
    /\ sx.phase = "fifo"
    /\ sx' = [sx EXCEPT !.phase = "client",
                        !.exit_status = ExitStatusFromRaw(ParseStatus(sx.text))]
    /\ UNCHANGED <<dvars, ag, fvars>>

\* captured_output.exit_status.code().unwrap_or(1)
AgentExitCode(st) == IF ExitStatusCode(st) = -1 THEN 1 ELSE ExitStatusCode(st)

status_code ==
    /\ sx.phase = "client"
    /\ sx' = [sx EXCEPT !.phase = "agent",
                        !.exit_code = AgentExitCode(sx.exit_status)]
    /\ UNCHANGED <<dvars, ag, fvars>>

NextStatus == status_echo \/ status_parse \/ status_code
SpecStatus == InitStatus /\ [][NextStatus]_vars

\* C7: for every s in 0..255 written by the shell, the exit_status returned by
\* exec / exec_captured has code s and is a success iff s = 0, and the agent
\* reads exit code s; a text that is no integer yields 1.
C7_ExitStatusRoundTrip ==
    /\ (sx.phase \in {"client", "agent"} /\ sx.s >= 0) =>
          /\ ExitStatusCode(sx.exit_status) = sx.s
          /\ ExitStatusSuccess(sx.exit_status) <=> (sx.s = 0)
    /\ (sx.phase = "agent" /\ sx.s >= 0) => sx.exit_code = sx.s
    /\ (sx.phase = "agent" /\ sx.s < 0) => sx.exit_code = 1

\* ================================================ from response to command
\* hnt-agent main.rs lines 671-683: the last <hnt-shell> block of the
\* assistant content, trimmed, with its backticks escaped.  A text is a
\* sequence of atoms; the two tags are atoms.
MaxText == 6       \* atoms of an assistant content
MaxCommand == 4    \* atoms of a block body with backticks

\* the characters U+0060 and U+005C
Backtick == "BACKTICK"
Backslash == "\\"

OpenTag == "<hnt-shell>"
CloseTag == "</hnt-shell>"

SeqsUpTo(A, n) == UNION {[1..k -> A] : k \in 0..n}

RECURSIVE IndexFrom(_, _, _)
\* the first position >= p of atom a in t, 0 when there is none
IndexFrom(t, p, a) ==
    IF p > Len(t) THEN 0
    ELSE IF t[p] = a THEN p
    ELSE IndexFrom(t, p + 1, a)

RECURSIVE captures_iter(_, _)
\* Regex (?s)<hnt-shell>(.*?)</hnt-shell>, captures_iter from position p:
\* the leftmost opening tag, the first closing tag after it, group 1 in
\* between; the next search starts behind the match.
captures_iter(t, p) ==
    LET i == IndexFrom(t, p, OpenTag)
        j == IF i = 0 THEN 0 ELSE IndexFrom(t, i + 1, CloseTag)
    IN IF j = 0 THEN <<>>
       ELSE <<SubSeq(t, i + 1, j - 1)>> \o captures_iter(t, j + 1)

\* an agent that commits to the first block
captures_first(caps) == caps[1]

\* Iterator::last
captures_last(caps) == caps[Len(caps)]

RECURSIVE replace_all(_, _)
\* Regex "(^|[^\\])" followed by a backtick, replaced by "$1\" and a
\* backtick in every non-overlapping match: at the start of the text a
\* backtick alone matches; elsewhere a match is one atom other than a
\* backslash followed by a backtick, and the search goes on behind the
\* backtick.
replace_all(t, p) ==
    IF p > Len(t) THEN <<>>
    ELSE IF p = 1 /\ t[1] = Backtick
         THEN <<Backslash, Backtick>> \o replace_all(t, 2)
    ELSE IF p < Len(t) /\ t[p] # Backslash /\ t[p + 1] = Backtick
         THEN <<t[p], Backslash, Backtick>> \o replace_all(t, p + 2)
    ELSE <<t[p]>> \o replace_all(t, p + 1)

\* The assistant contents the extraction is run on: texts with tags, and
\* single blocks whose body has backticks and backslashes.
Contents ==
    SeqsUpTo({OpenTag, CloseTag, "a", "b", " "}, MaxText)
    \cup {<<OpenTag>> \o w \o <<CloseTag>> :
             w \in SeqsUpTo({Backtick, Backslash, "a", " "}, MaxCommand)}

InitExtract ==
    /\ InitDaemon
    /\ ag = AgentIdle
    /\ sx = StatusIdle
    /\ LibIdle(LibVars \ {"ex"})
    /\ ex \in [pc : {"response"}, llm_response : Contents,
               no_escape_backticks : BOOLEAN, command_match : {<<>>},
               command_text : {<<>>}, sent : {<<>>}]

\* if let Some(captures) = re.captures_iter(&llm_response).last()
extract_captures ==
    /\ ex.pc = "response"
    /\ LET caps == captures_iter(ex.llm_response, 1)
       IN  ex' = IF caps = <<>> THEN [ex EXCEPT !.pc = "no_command"]
                 ELSE [ex EXCEPT !.pc = "matched",
                                 !.command_match = captures_last(caps)]
    /\ UNCHANGED others_ex

\* let mut command_text = command_match.as_str().trim().to_string();
extract_trim ==
    /\ ex.pc = "matched"
    /\ ex' = [ex EXCEPT !.pc = "trimmed", !.command_text = Trim(ex.command_match)]
    /\ UNCHANGED others_ex

\* if !cli.no_escape_backticks { command_text = re_escape.replace_all(..) }
extract_escape ==
    /\ ex.pc = "trimmed"
    /\ ex' = [ex EXCEPT !.pc = "command",
                        !.command_text = IF ex.no_escape_backticks THEN @
                                         ELSE replace_all(@, 1)]
    /\ UNCHANGED others_ex

\* session.exec_captured(&command_text)
extract_exec ==
    /\ ex.pc = "command"
    /\ ex' = [ex EXCEPT !.pc = "sent", !.sent = Append(@, ex.command_text)]
    /\ UNCHANGED others_ex

NextExtract == extract_captures \/ extract_trim \/ extract_escape \/ extract_exec
SpecExtract == InitExtract /\ [][NextExtract]_vars

\* The blocks of a text, told by their closing tags: a closing tag at j ends
\* a block when an opening tag lies between the closing tag before it (or
\* the start of the text) and j; the block's body starts behind the first
\* such opening tag.
PrevClose(t, j) ==
    LET S == {k \in 1..(j - 1) : t[k] = CloseTag}
    IN IF S = {} THEN 0 ELSE CHOOSE k \in S : \A m \in S : m <= k
BlockOpen(t, j) ==
    LET S == {k \in (PrevClose(t, j) + 1)..(j - 1) : t[k] = OpenTag}
    IN IF S = {} THEN 0 ELSE CHOOSE k \in S : \A m \in S : k <= m
BlockEnds(t) == {j \in 1..Len(t) : t[j] = CloseTag /\ BlockOpen(t, j) # 0}
LastBlockBody(t) ==
    LET j == CHOOSE k \in BlockEnds(t) : \A m \in BlockEnds(t) : m <= k
    IN SubSeq(t, BlockOpen(t, j) + 1, j - 1)

\* C12: for a content with one or more blocks the command is the trimmed
\* body of the last block, and it is the script that is executed (as it is
\* when backticks are not escaped or there is none); one script at most is
\* executed for a response, none when the content has no block.
C12_LastBlockIsExecuted ==
    /\ Len(ex.sent) <= 1
    /\ (ex.pc = "no_command") => BlockEnds(ex.llm_response) = {}
    /\ (ex.pc \in {"matched", "trimmed", "command", "sent"})
          => BlockEnds(ex.llm_response) # {}
    /\ (ex.pc = "trimmed")
          => ex.command_text = Trim(LastBlockBody(ex.llm_response))
    /\ (ex.pc = "sent")
          => /\ Len(ex.sent) = 1
             /\ (ex.no_escape_backticks
                 \/ \A i \in 1..Len(ex.command_text) : ex.command_text[i] # Backtick)
                   => ex.sent[1] = Trim(LastBlockBody(ex.llm_response))

\* Two blocks with different bodies, the later one was executed.
C12_Witness ==
    /\ ex.pc = "sent"
    /\ Cardinality(BlockEnds(ex.llm_response)) = 2
    /\ ex.llm_response[2] = "a"
    /\ ex.sent = << <<"b">> >>

\* what the escaping is to do: one backslash before every backtick that
\* does not follow a backslash
EscapedAt(t, i) ==
    IF t[i] = Backtick /\ (i = 1 \/ t[i - 1] # Backslash) THEN <<Backslash, Backtick>> ELSE <<t[i]>>
RECURSIVE EscapeEvery(_, _)
EscapeEvery(t, i) ==
    IF i > Len(t) THEN <<>> ELSE EscapedAt(t, i) \o EscapeEvery(t, i + 1)

\* C13: with backtick escaping enabled the script sent to the session is the
\* extracted command with one backslash inserted before every backtick that
\* was not immediately preceded by a backslash, also at the start and behind
\* another backtick, and nothing else changed.
C13_EveryBacktickEscaped ==
    (ex.pc = "sent" /\ ~ex.no_escape_backticks)
        => ex.sent[1] = EscapeEvery(Trim(ex.command_match), 1)

\* ============================================================ the agent
\* hnt-agent's main: one session daemon, one conversation directory, and the
\* loop PACK -> stream -> persist -> extract -> confirm -> run -> result.
\* exec_captured is taken by its contract: Ok with the two streams and the
\* exit_status of lib.rs lines 207-208, or Err.
MaxTurns == 2
MaxEvents == 2     \* items of one event stream before it ends

SessionArgs == {"none", "dir", "missing"}
Streams == {<<>>, <<" ", "\n">>, <<"o", "\n">>}
ExitCodes == {0, 2, 128}
NoCapture == [stdout |-> <<>>, stderr |-> <<>>, exit_status |-> 0]
\* The events of a stream: content tokens, one of them a shell block, and a
\* reasoning token.
ContentTokens == {<<"t">>, <<OpenTag, " ", "c", CloseTag>>}
ReasoningTokens == {<<"r">>}
Confirm == "Confirm. Proceed to execute Hinata's shell block."
Skip == "Skip this execution. Provide new instructions instead."
Exit == "Exit the Hinata session."
Selections == {Confirm, Skip, Exit, "None"}

InitAgent ==
    /\ InitDaemon
    /\ LibIdle(LibVars)
    /\ sx = StatusIdle
    /\ ag \in [pc : {"main"}, session : SessionArgs, message : BOOLEAN,
               no_confirm : BOOLEAN, ignore_reasoning : BOOLEAN,
               spawned : {FALSE}, exits : {0}, kills : {0},
               result : {"none"}, turn_counter : {1}, msgs : {<<>>},
               llm_response : {<<>>}, reasoning_buffer : {<<>>},
               events : {0}, llm_error : {FALSE}, command_text : {<<>>},
               choices : {<<>>}, sent : {<<>>}, n : {-1},
               captured_output : {NoCapture}]

\* A return of main: the process ends, with or without an error.
Return(why) == [ag EXCEPT !.pc = "done", !.result = why]
\* `?` and bail! inside the async block: the block's value is the error,
\* and main goes on below the select.
Bail == [ag EXCEPT !.pc = "after_select", !.result = "err"]

write_message_file(msgs, role, body) == Append(msgs, [role |-> role, body |-> body])

\* let session = Session::create(session_id.clone()).await?;
main_create ==
    /\ ag.pc = "main"
    /\ \E ok \in BOOLEAN :
          ag' = IF ok THEN [ag EXCEPT !.pc = "created"] ELSE Return("err")
    /\ UNCHANGED <<dvars, sx, fvars>>

\* session.spawn(None)?;
main_spawn ==
    /\ ag.pc = "created"
    /\ \E ok \in BOOLEAN :
          ag' = IF ok THEN [ag EXCEPT !.pc = "restore_pwd", !.spawned = TRUE]
                      ELSE Return("err")
    /\ UNCHANGED <<dvars, sx, fvars>>

\* The saved working directory is restored with `cd`; a failure is only
\* logged.
main_restore_pwd ==
    /\ ag.pc = "restore_pwd"
    /\ ag' = [ag EXCEPT !.pc = "conversation_dir"]
    /\ UNCHANGED <<dvars, sx, fvars>>

\* let conversation_dir = ...: a --session that names no directory is a
\* bail!, and get_conversations_dir / create_new_conversation may fail with
\* `?`; both return from main.
main_conversation_dir ==
    /\ ag.pc = "conversation_dir"
    /\ \/ /\ ag.session = "missing"
          /\ ag' = Return("err")
       \/ /\ ag.session = "dir"
          /\ ag' = [ag EXCEPT !.pc = "user_instruction"]
       \/ /\ ag.session = "none"
          /\ \E ok \in BOOLEAN :
                ag' = IF ok THEN [ag EXCEPT !.pc = "user_instruction"]
                            ELSE Return("err")
    /\ UNCHANGED <<dvars, sx, fvars>>

\* The select's other arm: ctrl_c wins while the async block is pending at
\* one of its awaits.
AwaitPoints == {"stream", "exec_captured", "save_pwd"}

main_ctrl_c ==
    /\ ag.pc \in AwaitPoints
    /\ ag' = [ag EXCEPT !.pc = "after_select", !.kills = @ + 1, !.result = "ok"]
    /\ UNCHANGED <<dvars, sx, fvars>>

\* cli.message, else prompt_for_instruction, else bail!
main_user_instruction ==
    /\ ag.pc = "user_instruction"
    /\ \/ /\ ag.message
          /\ ag' = [ag EXCEPT !.pc = "priming"]
       \/ /\ ~ag.message
          /\ \E given \in BOOLEAN :
                ag' = IF given THEN [ag EXCEPT !.pc = "priming"] ELSE Bail
    /\ UNCHANGED <<dvars, sx, fvars>>

UserRequest == <<"<user_request>", "\n", "i", "\n", "</user_request>">>

\* The system message of a new conversation, then the user instruction.
main_priming ==
    /\ ag.pc = "priming"
    /\ LET m1 == IF ag.session = "none"
                 THEN write_message_file(ag.msgs, "system", <<"s">>)
                 ELSE ag.msgs
       IN  ag' = [ag EXCEPT !.pc = "pack",
                            !.msgs = write_message_file(m1, "user", UserRequest)]
    /\ UNCHANGED <<dvars, sx, fvars>>

\* chat::pack_conversation(&conversation_dir, &mut buffer, false)?;
main_pack ==
    /\ ag.pc = "pack"
    /\ ag.turn_counter <= MaxTurns
    /\ \E ok \in BOOLEAN :
          ag' = IF ok
                THEN [ag EXCEPT !.pc = "stream", !.n = -1,
                                !.llm_response = <<>>,
                                !.reasoning_buffer = <<>>,
                                !.events = 0, !.llm_error = FALSE]
                ELSE Bail
    /\ UNCHANGED <<dvars, sx, fvars>>

\* while let Some(event) = stream.next().await: a content event, a
\* reasoning event, an error (break), or the end of the stream.
main_stream ==
    /\ ag.pc = "stream"
    /\ \/ /\ ag.events < MaxEvents
          /\ \E content \in ContentTokens :
                ag' = [ag EXCEPT !.events = @ + 1,
                                 !.llm_response = @ \o content]
       \/ /\ ag.events < MaxEvents
          /\ \E reasoning \in ReasoningTokens :
                ag' = [ag EXCEPT !.events = @ + 1,
                                 !.reasoning_buffer =
                                     IF ag.ignore_reasoning THEN @
                                     ELSE @ \o reasoning]
       \/ ag' = [ag EXCEPT !.pc = "llm_error", !.llm_error = TRUE]
       \/ ag' = [ag EXCEPT !.pc = "persist"]
    /\ UNCHANGED <<dvars, sx, fvars>>

\* an agent that keeps what it received before the error
RetryKeepingPartial ==
    [ag EXCEPT !.pc = "pack",
               !.msgs = write_message_file(@, "assistant", ag.llm_response)]

\* Some("Retry LLM request.") => continue
Retry == [ag EXCEPT !.pc = "pack"]

\* if let Some(e) = llm_error: retry, or bail!("User chose to exit.")
main_llm_error ==
    /\ ag.pc = "llm_error"
    /\ \E selection \in {"Retry LLM request.", "Quit."} :
          ag' = IF selection = "Retry LLM request." THEN Retry ELSE Bail
    /\ UNCHANGED <<dvars, sx, fvars>>

\* The reasoning message, if any, then the assistant message.
main_persist ==
    /\ ag.pc = "persist"
    /\ LET m1 == IF ~ag.ignore_reasoning /\ ag.reasoning_buffer # <<>>
                 THEN write_message_file(ag.msgs, "assistant-reasoning",
                          <<"<think>">> \o ag.reasoning_buffer \o <<"</think>">>)
                 ELSE ag.msgs
       IN  ag' = [ag EXCEPT !.pc = "extract",
                            !.msgs = write_message_file(m1, "assistant",
                                                        ag.llm_response)]
    /\ UNCHANGED <<dvars, sx, fvars>>

\* re.captures_iter(&llm_response).last(), trimmed and with its backticks
\* escaped (cli.no_escape_backticks is not set).
main_extract ==
    /\ ag.pc = "extract"
    /\ LET caps == captures_iter(ag.llm_response, 1)
       IN  ag' = IF caps = <<>> THEN [ag EXCEPT !.pc = "no_command"]
                 ELSE [ag EXCEPT
                         !.pc = IF ag.no_confirm THEN "exec_captured"
                                ELSE "confirm",
                         !.command_text =
                             replace_all(Trim(captures_last(caps)), 1)]
    /\ UNCHANGED <<dvars, sx, fvars>>

\* an agent that goes on without writing the new instructions down
NewInstructionsUnwritten(given) ==
    IF given THEN [ag EXCEPT !.pc = "pack", !.turn_counter = @ + 1]
    ELSE Bail

\* New instructions become a user message and the next turn; none is a bail!
NewInstructions(given) ==
    IF given
    THEN [ag EXCEPT !.pc = "pack",
                    !.msgs = write_message_file(ag.msgs, "user", UserRequest),
                    !.turn_counter = @ + 1]
    ELSE Bail

\* an agent that executes whatever was selected
ProceedsAlways(selection) == TRUE

\* Some("Confirm. Proceed to execute Hinata's shell block.") falls through
\* to the execution.
Proceeds(selection) == selection = Confirm

Chosen(selection) ==
    [turn |-> ag.turn_counter, command |-> ag.command_text,
     selection |-> selection]

\* if !cli.no_confirm: the selection (Tty::new and select.run may fail);
\* Confirm goes on to the execution, Skip asks for new instructions, Exit
\* and a cancelled selection are a bail!
main_confirm ==
    /\ ag.pc = "confirm"
    /\ \/ ag' = Bail
       \/ \E selection \in Selections :
             LET a == [ag EXCEPT !.choices = Append(@, Chosen(selection))]
             IN  \/ /\ Proceeds(selection)
                    /\ ag' = [a EXCEPT !.pc = "exec_captured"]
                 \/ /\ ~Proceeds(selection)
                    /\ selection = Skip
                    /\ \E given \in BOOLEAN :
                          ag' = IF given
                                THEN [a EXCEPT
                                        !.pc = "pack",
                                        !.msgs = write_message_file(
                                                     @, "user", UserRequest),
                                        !.turn_counter = @ + 1]
                                ELSE [a EXCEPT !.pc = "after_select",
                                               !.result = "err"]
                 \/ /\ ~Proceeds(selection)
                    /\ selection # Skip
                    /\ ag' = [a EXCEPT !.pc = "after_select", !.result = "err"]
    /\ UNCHANGED <<dvars, sx, fvars>>

\* let captured_output_res = session.exec_captured(&command_text).await;
\* let captured_output = captured_output_res?;
main_exec_captured ==
    /\ ag.pc = "exec_captured"
    /\ LET a == [ag EXCEPT !.sent = Append(@, [turn |-> ag.turn_counter,
                                               command |-> ag.command_text])]
       IN  \/ \E o \in Streams, e \in Streams, N \in ExitCodes :
                ag' = [a EXCEPT
                         !.pc = "save_pwd", !.n = N,
                         !.captured_output =
                             [stdout |-> o, stderr |-> e,
                              exit_status |->
                                  ExitStatusFromRaw(ParseStatus(EchoStatus(N)))]]
           \/ ag' = [a EXCEPT !.pc = "after_select", !.result = "err"]
    /\ UNCHANGED <<dvars, sx, fvars>>

\* if let Ok(pwd_output) = session.exec_captured("pwd").await: every
\* failure is only logged.
main_save_pwd ==
    /\ ag.pc = "save_pwd"
    /\ ag' = [ag EXCEPT !.pc = "result_message"]
    /\ UNCHANGED <<dvars, sx, fvars>>

Element(tag, content, close) == <<tag, "\n">> \o content \o <<"\n", close>>
ExitCodeElement(code) == <<"<exit_code>">> \o Dec(code) \o <<"</exit_code>">>

parts(cap) ==
    (IF Trim(cap.stdout) # <<>>
     THEN <<Element("<stdout>", Trim(cap.stdout), "</stdout>")>> ELSE <<>>)
    \o (IF Trim(cap.stderr) # <<>>
        THEN <<Element("<stderr>", Trim(cap.stderr), "</stderr>")>> ELSE <<>>)
    \o (IF AgentExitCode(cap.exit_status) # 0
        THEN <<ExitCodeElement(AgentExitCode(cap.exit_status))>> ELSE <<>>)

RECURSIVE Join(_)
Join(ps) ==
    IF ps = <<>> THEN <<>>
    ELSE IF Len(ps) = 1 THEN ps[1]
    ELSE ps[1] \o <<"\n">> \o Join(Tail(ps))

result_message(cap) ==
    IF parts(cap) = <<>>
    THEN <<"<hnt-shell-results>", "</hnt-shell-results>">>
    ELSE <<"<hnt-shell-results>", "\n">> \o Join(parts(cap))
         \o <<"\n", "</hnt-shell-results>">>

\* The result becomes a user message and the loop goes on.
main_result_message ==
    /\ ag.pc = "result_message"
    /\ \E ok \in BOOLEAN :
          ag' = IF ok
                THEN [ag EXCEPT
                        !.pc = "pack",
                        !.msgs = write_message_file(ag.msgs, "user",
                                     result_message(ag.captured_output)),
                        !.turn_counter = @ + 1]
                ELSE Bail
    /\ UNCHANGED <<dvars, sx, fvars>>

\* LLM provided no command: new instructions, or bail!
main_no_command ==
    /\ ag.pc = "no_command"
    /\ \E given \in BOOLEAN : ag' = NewInstructions(given)
    /\ UNCHANGED <<dvars, sx, fvars>>

\* session.exit().await?; result
main_exit ==
    /\ ag.pc = "after_select"
    /\ \E ok \in BOOLEAN :
          ag' = [ag EXCEPT !.pc = "done", !.exits = @ + 1,
                           !.result = IF ok THEN @ ELSE "err"]
    /\ UNCHANGED <<dvars, sx, fvars>>

NextAgent ==
    \/ main_create \/ main_spawn \/ main_restore_pwd \/ main_conversation_dir
    \/ main_ctrl_c \/ main_user_instruction \/ main_priming \/ main_pack
    \/ main_stream \/ main_llm_error \/ main_persist \/ main_extract
    \/ main_confirm \/ main_exec_captured \/ main_save_pwd
    \/ main_result_message \/ main_no_command \/ main_exit

SpecAgent == InitAgent /\ [][NextAgent]_vars

\* b occurs in a as a run of consecutive elements.
Contains(a, b) ==
    \E i \in 0..(Len(a) - Len(b)) : SubSeq(a, i + 1, i + Len(b)) = b

ResultWritten == ag.pc = "pack" /\ ag.n >= 0
LastMessage == ag.msgs[Len(ag.msgs)]

\* C8: after a script that exited with status N, the agent has written one
\* user-role <hnt-shell-results> message; it holds <exit_code>N</exit_code>
\* when N is not 0 and no exit_code element when N is 0; <stdout> and
\* <stderr> are present iff the trimmed stream is not empty; the loop is
\* back at PACK.
C8_NonzeroExitInResultMessage ==
    ResultWritten =>
        /\ LastMessage.role = "user"
        /\ Contains(LastMessage.body, <<"<hnt-shell-results>">>)
        /\ Contains(LastMessage.body, <<"<exit_code>">>) <=> (ag.n # 0)
        /\ (ag.n # 0) => Contains(LastMessage.body, ExitCodeElement(ag.n))
        /\ Contains(LastMessage.body, <<"<stdout>">>)
              <=> (Trim(ag.captured_output.stdout) # <<>>)
        /\ Contains(LastMessage.body, <<"<stderr>">>)
              <=> (Trim(ag.captured_output.stderr) # <<>>)

\* C10: whenever the agent process has ended after it spawned the session
\* daemon, Session::exit was attempted.
C10_ExitAttemptedOnEveryPath ==
    (ag.pc = "done" /\ ag.spawned) => ag.exits > 0

\* C11: without --no-confirm every command sent to exec_captured was the
\* command of its turn for which the user selected the EXECUTE option, and
\* a command for which SKIP or EXIT was selected, or the selection was
\* cancelled, is never sent.
C11_ExecutedOnlyAfterConfirm ==
    ~ag.no_confirm =>
        /\ \A i \in 1..Len(ag.sent) :
              \E j \in 1..Len(ag.choices) :
                 /\ ag.choices[j].turn = ag.sent[i].turn
                 /\ ag.choices[j].command = ag.sent[i].command
                 /\ ag.choices[j].selection = Confirm
        /\ \A j \in 1..Len(ag.choices) :
              ag.choices[j].selection # Confirm =>
                 \A i \in 1..Len(ag.sent) : ag.sent[i].turn # ag.choices[j].turn

\* A skipped command, new instructions, and a confirmed command that was
\* sent in the next turn.
C11_Witness ==
    /\ ~ag.no_confirm
    /\ Len(ag.choices) = 2
    /\ ag.choices[1].selection = Skip
    /\ ag.choices[2].selection = Confirm
    /\ Len(ag.sent) = 1
    /\ ag.sent[1].turn = 2

IsAssistantFile(m) == m.role \in {"assistant", "assistant-reasoning"}

\* C14: no message file is written while the event stream is being read or
\* after it yielded an error; an assistant or assistant-reasoning file is
\* written only after the stream ended without error; RETRY re-enters PACK
\* with the conversation unchanged, and the new attempt starts from empty
\* content and reasoning buffers.
C14_PersistOnlyAfterStreamEnd ==
    [][/\ ag.pc \in {"stream", "llm_error"} => ag'.msgs = ag.msgs
       /\ (Len(ag'.msgs) > Len(ag.msgs) /\ IsAssistantFile(ag'.msgs[Len(ag'.msgs)]))
             => (ag.pc = "persist" /\ ~ag.llm_error)
       /\ (ag.pc = "pack" /\ ag'.pc = "stream")
             => (ag'.llm_response = <<>> /\ ag'.reasoning_buffer = <<>>)]_vars

\* RETRY was selected after an error that followed content and reasoning
\* events; no assistant file is in the conversation.
C14_Witness ==
    /\ ag.pc = "pack"
    /\ ag.llm_error
    /\ ag.llm_response # <<>>
    /\ ag.reasoning_buffer # <<>>
    /\ \A i \in 1..Len(ag.msgs) : ~IsAssistantFile(ag.msgs[i])

\* ====================================================== the event stream
\* stream_llm_response (libhinata-core llm.rs lines 239-374): the request,
\* then the decoding of the server-sent events.  A byte sequence is a
\* sequence of atoms: line feed, carriage return, the prefix "data: ", a
\* space, and the JSON texts, each of them one atom.
MaxChunks == 3     \* items of the byte stream of one response

LF == "\n"
CR == "\r"
DataPrefix == "data: "
Done == "[DONE]"

\* Option<String>: <<>> is None, <<s>> is Some(s); a string is a text.
Delta(reasoning_content, reasoning, content) ==
    [reasoning_content |-> reasoning_content, reasoning |-> reasoning,
     content |-> content]

\* serde_json::from_str::<ApiResponseChunk>(data) for the JSON texts of the
\* model: [ok, choices], not ok for a text that is no chunk.
ApiChunk(choices) == [ok |-> TRUE, choices |-> choices]
from_str(data) ==
    CASE data = <<"{content}">> ->
             ApiChunk(<< Delta(<<>>, <<>>, << <<"c">> >>) >>)
      [] data = <<"{reasoning_content,content}">> ->
             ApiChunk(<< Delta(<< <<"q">> >>, <<>>, << <<"d">> >>) >>)
      [] data = <<"{reasoning}">> ->
             ApiChunk(<< Delta(<<>>, << <<"x">> >>, << <<>> >>) >>)
      [] data = <<"{reasoning_content:'',reasoning}">> ->
             ApiChunk(<< Delta(<< <<>> >>, << <<"y">> >>, <<>>) >>)
      [] data = <<"{choices:[]}">> -> ApiChunk(<<>>)
      [] data = <<"{content:", "0xC3", "0xA9", "}">> ->
             ApiChunk(<< Delta(<<>>, <<>>, << <<"0xC3", "0xA9">> >>) >>)
      [] OTHER -> [ok |-> FALSE, choices |-> <<>>]

JsonTexts ==
    {"{content}", "{reasoning_content,content}", "{reasoning}",
     "{reasoning_content:'',reasoning}", "{choices:[]}", "{"}

\* The lines a server may send, without their line ends.
StreamLines ==
    {<<DataPrefix, j>> : j \in JsonTexts}
    \cup {<<DataPrefix, Done>>, <<DataPrefix, " ", Done, " ">>,
          <<DataPrefix>>, <<"event: x">>}

\* The chunks the byte stream may be cut into.
StreamChunks ==
    {l : l \in StreamLines}
    \cup {l \o <<LF, LF>> : l \in StreamLines}
    \cup {<<DataPrefix, "{content}", CR, LF, CR, LF>>,
          <<DataPrefix, "{content}", LF>>, <<DataPrefix, Done, LF>>}
    \cup {<<LF>>, <<CR>>, <<CR, LF>>, <<LF, LF>>, <<LF, CR, LF>>}
    \cup {<<DataPrefix, Done, LF, LF, DataPrefix, "{content}", LF, LF>>,
          <<DataPrefix, "{content}", LF, LF,
            DataPrefix, "{reasoning_content,content}", LF, LF>>}

Reasoning(text) == [kind |-> "Reasoning", text |-> text]
Content(text) == [kind |-> "Content", text |-> text]
StreamErr == [kind |-> "Err", text |-> <<>>]

InitStream ==
    /\ InitDaemon
    /\ ag = AgentIdle
    /\ sx = StatusIdle
    /\ LibIdle(LibVars \ {"ls"})
    /\ \E net \in SeqsUpTo(StreamChunks \cup {<<"Err">>}, MaxChunks) :
          ls = [pc |-> "request", net |-> net, all |-> net, buffer |-> <<>>,
                received |-> <<>>, done |-> FALSE, out |-> <<>>]

\* Provider, API key, build_messages, send, and the HTTP status: an error
\* is the stream's only item.
stream_request ==
    /\ ls.pc = "request"
    /\ \E ok \in BOOLEAN :
          ls' = IF ok THEN [ls EXCEPT !.pc = "next"]
                ELSE [ls EXCEPT !.pc = "ended", !.out = Append(@, StreamErr)]
    /\ UNCHANGED others_ls

\* while let Some(item) = stream.next().await: bytes go to the buffer, an
\* error is yielded and ends the loop, as does the end of the byte stream.
stream_next ==
    /\ ls.pc = "next"
    /\ \/ /\ ls.net = <<>>
          /\ ls' = [ls EXCEPT !.pc = "ended"]
       \/ /\ ls.net # <<>>
          /\ Head(ls.net) = <<"Err">>
          /\ ls' = [ls EXCEPT !.pc = "ended", !.net = Tail(@),
                              !.out = Append(@, StreamErr)]
       \/ /\ ls.net # <<>>
          /\ Head(ls.net) # <<"Err">>
          /\ ls' = [ls EXCEPT !.pc = "scan", !.net = Tail(@),
                              !.buffer = @ \o Head(ls.net),
                              !.received = @ \o Head(ls.net)]
    /\ UNCHANGED others_ls

RECURSIVE Position(_, _, _)
\* buffer.windows(n).position(|w| w == pat), counted from 1; 0 is None
Position(t, pat, p) ==
    IF p + Len(pat) - 1 > Len(t) THEN 0
    ELSE IF SubSeq(t, p, p + Len(pat) - 1) = pat THEN p
    ELSE Position(t, pat, p + 1)

\* a decoder that expects every chunk to end with a terminator
find_sse_terminator_at_end(buffer) ==
    IF Len(buffer) >= 2 /\ SubSeq(buffer, Len(buffer) - 1, Len(buffer)) = <<LF, LF>>
    THEN [pos |-> Len(buffer) - 1, len |-> 2]
    ELSE [pos |-> 0, len |-> 0]

\* [pos, len] of the first terminator, pos = 0 when there is none
find_sse_terminator(buffer) ==
    LET pos_crlf == Position(buffer, <<CR, LF, CR, LF>>, 1)
        pos_lf   == Position(buffer, <<LF, LF>>, 1)
    IN IF pos_crlf # 0 /\ pos_lf # 0
       THEN IF pos_crlf < pos_lf THEN [pos |-> pos_crlf, len |-> 4]
            ELSE [pos |-> pos_lf, len |-> 2]
       ELSE IF pos_crlf # 0 THEN [pos |-> pos_crlf, len |-> 4]
       ELSE IF pos_lf # 0 THEN [pos |-> pos_lf, len |-> 2]
       ELSE [pos |-> 0, len |-> 0]

RECURSIVE SplitLF(_)
\* message_block_bytes.split(|&b| b == b'\n')
SplitLF(t) ==
    LET i == IndexFrom(t, 1, LF)
    IN IF i = 0 THEN <<t>>
       ELSE <<SubSeq(t, 1, i - 1)>> \o SplitLF(SubSeq(t, i + 1, Len(t)))

\* line_bytes.strip_suffix(b"\r").unwrap_or(line_bytes)
StripCR(l) ==
    IF l # <<>> /\ l[Len(l)] = CR THEN SubSeq(l, 1, Len(l) - 1) ELSE l

\* a decoder that does not know the end marker
IsDoneNever(data) == FALSE

\* if data == "[DONE]"
IsDone(data) == data = <<Done>>

\* a decoder that joins the reasoning and the content of one delta
DeltaEventsMerged(delta) ==
    IF delta.content # <<>> /\ delta.reasoning_content # <<>>
    THEN <<Content(delta.reasoning_content[1] \o delta.content[1])>>
    ELSE IF delta.content # <<>> /\ delta.content[1] # <<>>
    THEN <<Content(delta.content[1])>>
    ELSE <<>>

\* delta.reasoning_content.as_deref().or(delta.reasoning.as_deref()), then
\* delta.content: an event for each that is Some and not empty.
DeltaEvents(delta) ==
    LET reasoning_text == IF delta.reasoning_content # <<>>
                          THEN delta.reasoning_content ELSE delta.reasoning
    IN (IF reasoning_text # <<>> /\ reasoning_text[1] # <<>>
        THEN <<Reasoning(reasoning_text[1])>> ELSE <<>>)
       \o (IF delta.content # <<>> /\ delta.content[1] # <<>>
           THEN <<Content(delta.content[1])>> ELSE <<>>)

\* The body of the loop over the lines for one data text that is not empty
\* and not the end marker.
DataEvents(data) ==
    LET api_chunk == from_str(data)
    IN IF ~api_chunk.ok \/ api_chunk.choices = <<>> THEN <<>>
       ELSE DeltaEvents(api_chunk.choices[1])

RECURSIVE ProcessLines(_)
\* for line_bytes in ...: [events, done]; the end marker breaks the loop.
ProcessLines(lines) ==
    IF lines = <<>> THEN [events |-> <<>>, done |-> FALSE]
    ELSE LET line == StripCR(Head(lines))
             rest == ProcessLines(Tail(lines))
         IN IF line = <<>> \/ Head(line) # DataPrefix THEN rest
            ELSE LET data == Trim(Tail(line))
                 IN IF data = <<>> THEN rest
                    ELSE IF IsDone(data)
                         THEN [events |-> <<>>, done |-> TRUE]
                    ELSE [events |-> DataEvents(data) \o rest.events,
                          done |-> rest.done]

\* while let Some((pos, len)) = find_sse_terminator(&buffer): one block is
\* decoded and drained; done ends both loops.
stream_block ==
    /\ ls.pc = "scan"
    /\ LET term == find_sse_terminator(ls.buffer)
           r == ProcessLines(SplitLF(SubSeq(ls.buffer, 1, term.pos - 1)))
       IN  ls' = IF term.pos = 0 THEN [ls EXCEPT !.pc = "next"]
                 ELSE [ls EXCEPT
                         !.pc = IF r.done THEN "ended" ELSE "scan",
                         !.done = r.done,
                         !.out = @ \o r.events,
                         !.buffer = SubSeq(@, term.pos + term.len, Len(@))]
    /\ UNCHANGED others_ls

NextStream == stream_request \/ stream_next \/ stream_block
SpecStream == InitStream /\ [][NextStream]_vars

\* The data texts of a byte sequence, in the order of their lines: the
\* trimmed rest of every line that starts with the prefix, where not empty.
RECURSIVE DataTextsOf(_)
DataTextsOf(lines) ==
    IF lines = <<>> THEN <<>>
    ELSE LET line == StripCR(Head(lines))
         IN (IF line # <<>> /\ Head(line) = DataPrefix /\ Trim(Tail(line)) # <<>>
             THEN <<Trim(Tail(line))>> ELSE <<>>)
            \o DataTextsOf(Tail(lines))
DataTexts(bytes) == DataTextsOf(SplitLF(bytes))

RECURSIVE BeforeDone(_)
BeforeDone(texts) ==
    IF texts = <<>> \/ Head(texts) = <<Done>> THEN <<>>
    ELSE <<Head(texts)>> \o BeforeDone(Tail(texts))

\* The delta fields of one data text as the events they are to become: the
\* two reasoning fields, then the content field, of choices[0].delta.
Fields(data) ==
    LET api_chunk == from_str(data)
        d == api_chunk.choices[1]
    IN IF ~api_chunk.ok \/ api_chunk.choices = <<>> THEN <<>>
       ELSE (IF d.reasoning # <<>> THEN <<Reasoning(d.reasoning[1])>> ELSE <<>>)
            \o (IF d.reasoning_content # <<>>
                THEN <<Reasoning(d.reasoning_content[1])>> ELSE <<>>)
            \o (IF d.content # <<>> THEN <<Content(d.content[1])>> ELSE <<>>)

RECURSIVE AllFields(_)
AllFields(texts) ==
    IF texts = <<>> THEN <<>>
    ELSE Fields(Head(texts)) \o AllFields(Tail(texts))

RECURSIVE NonEmpty(_)
NonEmpty(events) ==
    IF events = <<>> THEN <<>>
    ELSE (IF Head(events).text # <<>> THEN <<Head(events)>> ELSE <<>>)
         \o NonEmpty(Tail(events))

RECURSIVE IsSubseq(_, _)
\* a is b with some elements left out
IsSubseq(a, b) ==
    IF a = <<>> THEN TRUE
    ELSE IF b = <<>> THEN FALSE
    ELSE IF Head(a) = Head(b) THEN IsSubseq(Tail(a), Tail(b))
    ELSE IsSubseq(a, Tail(b))

RECURSIVE EventsOnly(_)
\* the items of the stream that are events
EventsOnly(out) ==
    IF out = <<>> THEN <<>>
    ELSE (IF Head(out).kind # "Err" THEN <<Head(out)>> ELSE <<>>)
         \o EventsOnly(Tail(out))

\* C15: the events yielded are, in the order of the data lines received and
\* within one delta reasoning before content, each the text of exactly one
\* delta field, and none of them carries an empty string.
C15_EventsInOrderUnmerged ==
    /\ IsSubseq(EventsOnly(ls.out), AllFields(DataTexts(ls.received)))
    /\ \A i \in 1..Len(ls.out) :
          ls.out[i].kind # "Err" => ls.out[i].text # <<>>

\* Two data lines in one chunk gave three events, the reasoning of the
\* second delta before its content.
C15_Witness ==
    /\ ls.pc = "ended"
    /\ ls.out = <<Content(<<"c">>), Reasoning(<<"q">>), Content(<<"d">>)>>

\* the bytes of the blocks that were decoded and drained
Drained == SubSeq(ls.received, 1, Len(ls.received) - Len(ls.buffer))

\* C16: every non-empty reasoning, reasoning_content and content field of
\* the delta of every data line that was decoded before the end marker has
\* its event among the events yielded.
C16_NoTokenDropped ==
    IsSubseq(NonEmpty(AllFields(BeforeDone(DataTexts(Drained)))),
             EventsOnly(ls.out))

RECURSIVE BeforeErr(_)
\* the bytes of the byte stream up to its first error
BeforeErr(net) ==
    IF net = <<>> \/ Head(net) = <<"Err">> THEN <<>>
    ELSE Head(net) \o BeforeErr(Tail(net))

\* C17: the stream yields nothing from behind the first end marker of the
\* byte stream or from behind its first error; an error item is the last
\* item; after the end marker or the error item the stream has ended.
C17_EndsAtFirstTerminal ==
    /\ IsSubseq(EventsOnly(ls.out),
                AllFields(BeforeDone(DataTexts(BeforeErr(ls.all)))))
    /\ \A i \in 1..(Len(ls.out) - 1) : ls.out[i].kind # "Err"
    /\ (ls.out # <<>> /\ ls.out[Len(ls.out)].kind = "Err") => ls.pc = "ended"
    /\ ls.done => ls.pc = "ended"

\* The end marker was decoded after an event; a block is left in the buffer
\* and a chunk in the byte stream.
C17_Witness ==
    /\ ls.done
    /\ ls.out # <<>>
    /\ DataTexts(ls.buffer) # <<>>
    /\ ls.net # <<>>

\* ================================================ the conversation directory
\* write_message_file and list_messages (hinata-core chat.rs lines 190-256).
\* A file name is a sequence of atoms: digits, "-", the words of the role and
\* the extension.
MaxWrites == 3     \* calls of write_message_file
MaxTime == 3       \* readings of the clock, in nanoseconds

Roles == {"user", "assistant", "system", "assistant-reasoning"}

\* impl fmt::Display for Role
RoleDisplay(role) ==
    IF role = "assistant-reasoning" THEN <<"assistant", "-", "reasoning">>
    ELSE <<role>>

\* impl FromStr for Role: <<role>>, or <<>> for an unknown role
RoleFromStr(t) ==
    CASE t = <<"user">> -> <<"user">>
      [] t = <<"assistant">> -> <<"assistant">>
      [] t = <<"system">> -> <<"system">>
      [] t = <<"assistant", "-", "reasoning">> -> <<"assistant-reasoning">>
      [] OTHER -> <<>>

\* format!("{}-{}.md", timestamp_ns, role)
FileName(timestamp_ns, role) ==
    Dec(timestamp_ns) \o <<"-">> \o RoleDisplay(role) \o <<".md">>

RECURSIVE ParseI64(_, _)
\* parts[0].parse::<i64>() for a text without sign: [ok, v]
ParseI64(t, acc) ==
    IF t = <<>> THEN [ok |-> TRUE, v |-> acc]
    ELSE IF DigitVal(Head(t)) < 0 THEN [ok |-> FALSE, v |-> 0]
    ELSE ParseI64(Tail(t), acc * 10 + DigitVal(Head(t)))

\* The body of the loop of list_messages for one directory entry: <<m>> for
\* a message file, <<>> for a file that is ignored.
ParseEntry(path) ==
    IF path = <<>> \/ path[Len(path)] # ".md" THEN <<>>
    ELSE LET file_stem == SubSeq(path, 1, Len(path) - 1)
             i == IndexFrom(file_stem, 1, "-")
             timestamp == ParseI64(SubSeq(file_stem, 1, i - 1), 0)
             role == RoleFromStr(SubSeq(file_stem, i + 1, Len(file_stem)))
         IN IF i <= 1 \/ ~timestamp.ok \/ role = <<>> THEN <<>>
            ELSE <<[path |-> path, timestamp |-> timestamp.v, role |-> role[1]]>>

RECURSIVE Insert(_, _)
\* m goes behind the messages that are not greater: the sort is stable
Insert(sorted, m) ==
    IF sorted = <<>> THEN <<m>>
    ELSE IF sorted[Len(sorted)].timestamp <= m.timestamp THEN Append(sorted, m)
    ELSE Append(Insert(SubSeq(sorted, 1, Len(sorted) - 1), m),
                sorted[Len(sorted)])

RECURSIVE SortMessages(_)
\* messages.sort() with the Ord of ChatMessage, which compares timestamps
SortMessages(messages) ==
    IF messages = <<>> THEN <<>>
    ELSE Insert(SortMessages(SubSeq(messages, 1, Len(messages) - 1)),
                messages[Len(messages)])

RECURSIVE Entries(_)
Entries(paths) ==
    IF paths = <<>> THEN <<>>
    ELSE ParseEntry(Head(paths)) \o Entries(Tail(paths))

InitChat ==
    /\ InitDaemon
    /\ ag = AgentIdle
    /\ sx = StatusIdle
    /\ LibIdle(LibVars \ {"cv"})
    /\ cv = [pc |-> "open", now |-> 1, files |-> {}, written |-> <<>>,
             calls |-> 0, errors |-> 0, listed |-> <<>>]

\* write_message_file: the clock is read (it has not gone back since the
\* last reading), a file of that name is an error, else the file is written.
chat_write_message_file ==
    /\ cv.calls < MaxWrites
    /\ \E role \in Roles, timestamp_ns \in cv.now..MaxTime :
          LET filename == FileName(timestamp_ns, role)
              c == [cv EXCEPT !.pc = "open", !.now = timestamp_ns,
                              !.calls = @ + 1, !.listed = <<>>]
          IN cv' = IF filename \in cv.files
                   THEN [c EXCEPT !.errors = @ + 1]
                   ELSE [c EXCEPT !.files = @ \cup {filename},
                                  !.written = Append(@, filename)]
    /\ UNCHANGED others_cv

\* list_messages: read_dir gives the entries in some order; the message
\* files among them are sorted.
chat_list_messages ==
    /\ cv.pc = "open"
    /\ \E dir \in [1..Cardinality(cv.files) -> cv.files] :
          /\ \A i, j \in DOMAIN dir : i # j => dir[i] # dir[j]
          /\ cv' = [cv EXCEPT !.pc = "listed",
                              !.listed = SortMessages(Entries(dir))]
    /\ UNCHANGED others_cv

NextChat == chat_write_message_file \/ chat_list_messages
SpecChat == InitChat /\ [][NextChat]_vars

\* C18: for a directory built by write_message_file alone, list_messages
\* returns one entry per written file, in strictly ascending order of the
\* timestamps, no two entries with the same timestamp, and in the order in
\* which the files were written.
C18_ListedInWriteOrder ==
    cv.pc = "listed" =>
        /\ Len(cv.listed) = Len(cv.written)
        /\ \A i, j \in 1..Len(cv.listed) :
              i < j => cv.listed[i].timestamp < cv.listed[j].timestamp
        /\ \A i \in 1..Len(cv.listed) : cv.listed[i].path = cv.written[i]

\* ======================================================= the packed prompt
\* pack_conversation (hinata-core chat.rs lines 267-283) with escape and
\* unescape (hinata-core escaping.rs lines 14-60), and the parser of the
\* packed prompt, build_messages (libhinata-core llm.rs lines 122-212).  A
\* text is a sequence of atoms: "<", ">", "/", the backslash, "hnt-", the
\* words of the roles, and other text.
MaxMessages == 2   \* messages of a conversation
MaxBody == 2       \* atoms of a body made of "<", backslash and text

PackRoles == {"user", "assistant", "system"}

OpenTagOf(role) == <<"<", "hnt-", role, ">">>
CloseTagOf(role) == <<"<", "/", "hnt-", role, ">">>

RECURSIVE escape(_)
\* every "<" becomes backslash "<"
escape(t) ==
    IF t = <<>> THEN <<>>
    ELSE (IF Head(t) = "<" THEN <<Backslash, "<">> ELSE <<Head(t)>>)
         \o escape(Tail(t))

RECURSIVE unescape(_)
\* input.replace("\\<", "<")
unescape(t) ==
    IF t = <<>> THEN <<>>
    ELSE IF Len(t) >= 2 /\ t[1] = Backslash /\ t[2] = "<"
         THEN <<"<">> \o unescape(SubSeq(t, 3, Len(t)))
    ELSE <<Head(t)>> \o unescape(Tail(t))

\* The bodies of the messages: short texts of "<", backslash and text,
\* texts with white space, and texts with literal tags.
Bodies ==
    SeqsUpTo({"<", Backslash, "a"}, MaxBody)
    \cup {<<" ", "a", " ">>, <<"\n">>}
    \cup {OpenTagOf("user"), CloseTagOf("user"), CloseTagOf("assistant"),
          <<"a">> \o CloseTagOf("user") \o <<"b">>,
          <<Backslash>> \o CloseTagOf("user"),
          <<"<", "hnt-">>, <<"<", "hnt-", "shell", ">">>}

Conversations ==
    SeqsUpTo([role : PackRoles, body : Bodies], MaxMessages)

InitPack ==
    /\ InitDaemon
    /\ ag = AgentIdle
    /\ sx = StatusIdle
    /\ LibIdle(LibVars \ {"pk"})
    /\ \E conv \in Conversations :
          pk = [pc |-> "pack", conv |-> conv, i |-> 1, writer |-> <<>>,
                current_pos |-> 1, non_tag_content |-> <<>>,
                messages |-> <<>>, err |-> FALSE]

\* One turn of the loop of pack_conversation: the opening tag, the escaped
\* content of the file, the closing tag and a line feed.
pack_conversation ==
    /\ pk.pc = "pack"
    /\ pk' = IF pk.i > Len(pk.conv) THEN [pk EXCEPT !.pc = "build"]
             ELSE LET msg == pk.conv[pk.i]
                  IN [pk EXCEPT
                        !.i = @ + 1,
                        !.writer = @ \o OpenTagOf(msg.role)
                                     \o escape(msg.body)
                                     \o CloseTagOf(msg.role) \o <<"\n">>]
    /\ UNCHANGED others_pk

Message(role, content) == [role |-> role, content |-> content]

\* messages.iter().any(|m| m.role == "system")
HasSystem(messages) == \E k \in 1..Len(messages) : messages[k].role = "system"

\* One turn of the loop of build_messages on the packed prompt: the next
\* "<hnt-", its ">", the first closing tag of that name behind it; the text
\* in between, unescaped, is a message of the role of the tag.
build_messages_tag ==
    /\ pk.pc = "build"
    /\ LET content == pk.writer
           tag_start_abs == Position(content, <<"<", "hnt-">>, pk.current_pos)
           tag_end_abs == IndexFrom(content, tag_start_abs, ">")
           tag_name == SubSeq(content, tag_start_abs + 1, tag_end_abs - 1)
           content_start_abs == tag_end_abs + 1
           closing_tag == <<"<", "/">> \o tag_name \o <<">">>
           closing_tag_start_abs ==
               Position(content, closing_tag, content_start_abs)
           tag_content ==
               SubSeq(content, content_start_abs, closing_tag_start_abs - 1)
           next_pos == closing_tag_start_abs + Len(closing_tag)
           skipped == SubSeq(content, pk.current_pos, tag_start_abs - 1)
           known == tag_name \in {<<"hnt-", r>> : r \in PackRoles}
       IN /\ tag_start_abs # 0
          /\ pk' =
               IF tag_end_abs = 0 \/ closing_tag_start_abs = 0
               THEN [pk EXCEPT !.pc = "built", !.err = TRUE,
                               !.non_tag_content = @ \o skipped]
               ELSE IF ~known
                       \/ (tag_name = <<"hnt-", "system">>
                           /\ HasSystem(pk.messages))
               THEN [pk EXCEPT !.current_pos = next_pos,
                               !.non_tag_content = @ \o skipped]
               ELSE [pk EXCEPT
                       !.current_pos = next_pos,
                       !.non_tag_content = @ \o skipped,
                       !.messages =
                           Append(@, Message(tag_name[2], unescape(tag_content)))]
    /\ UNCHANGED others_pk

\* Behind the loop: what stood outside the tags, trimmed and unescaped, is a
\* last user message when it is not empty.
build_messages_rest ==
    /\ pk.pc = "build"
    /\ Position(pk.writer, <<"<", "hnt-">>, pk.current_pos) = 0
    /\ LET non_tag_content ==
               pk.non_tag_content
               \o SubSeq(pk.writer, pk.current_pos, Len(pk.writer))
           trimmed_user_content == Trim(non_tag_content)
       IN pk' = [pk EXCEPT
                   !.pc = "built",
                   !.non_tag_content = non_tag_content,
                   !.messages =
                       IF trimmed_user_content = <<>> THEN @
                       ELSE Append(@, Message("user",
                                              unescape(trimmed_user_content)))]
    /\ UNCHANGED others_pk

NextPack == pack_conversation \/ build_messages_tag \/ build_messages_rest
SpecPack == InitPack /\ [][NextPack]_vars

\* C19: parsing the packed prompt of a conversation gives the sequence of
\* the (role, body) pairs of the conversation, whatever the bodies hold.
C19_PackParseRoundTrip ==
    pk.pc = "built" =>
        /\ ~pk.err
        /\ pk.messages =
              [k \in 1..Len(pk.conv) |->
                  Message(pk.conv[k].role, pk.conv[k].body)]

\* ====================================================== the edit applier
\* apply_changes and apply_change_block (hnt-apply lib.rs lines 13-60 and
\* 122-261).  A path is a sequence of components, the content of a file a
\* sequence of characters, a line a sequence of characters without a line
\* feed.  The blocks are what parse_blocks hands over: lines as str::lines
\* yields them, a path that is trimmed and not empty.
MaxLines == 3      \* lines of the file at the start
MaxTarget == 2     \* lines of a target
MaxBlocks == 2     \* blocks of one input
MaxRuns == 2       \* calls of apply_changes with the same input

\* the one source file, and a sibling that is not a source file
F == <<"d", "f">>
G == <<"d", "g">>
source_files == <<F>>
DiskPaths == {F, G}

Absent == [kind |-> "absent", content |-> <<>>]
Directory == [kind |-> "dir", content |-> <<>>]
RegularFile(content) == [kind |-> "file", content |-> content]

\* Path::parent
parent(path) == SubSeq(path, 1, Len(path) - 1)

\* get_common_prefix of a single source file: its parent directory
get_common_prefix(paths) == parent(paths[1])

\* Path::ends_with: the components of child are the last ones of path
ends_with(path, child) ==
    /\ Len(child) <= Len(path)
    /\ SubSeq(path, Len(path) - Len(child) + 1, Len(path)) = child

\* what is at a path; nothing is ever made outside DiskPaths
At(disk, path) == IF path \in DiskPaths THEN disk[path] ELSE Absent
exists(disk, path) == At(disk, path).kind # "absent"
is_file(disk, path) == At(disk, path).kind = "file"

\* common_root.join(relative_path), or the first source file that ends with
\* the relative path when nothing is at the joined path
path_to_use(disk, relative_path) ==
    LET joined == get_common_prefix(source_files) \o relative_path
        found == {k \in 1..Len(source_files) :
                     ends_with(source_files[k], relative_path)}
    IN IF ~exists(disk, joined) /\ found # {}
       THEN source_files[CHOOSE k \in found : \A j \in found : k <= j]
       ELSE joined

RECURSIVE lines(_)
\* str::lines: the pieces that end at a line feed, without the line feed
\* and without a carriage return in front of it; a last piece without a
\* line feed is a line as it stands
lines(content) ==
    IF content = <<>> THEN <<>>
    ELSE LET p == IndexFrom(content, 1, LF)
         IN IF p = 0 THEN <<content>>
            ELSE LET piece == SubSeq(content, 1, p - 1)
                     line == IF piece # <<>> /\ piece[Len(piece)] = CR
                             THEN SubSeq(piece, 1, Len(piece) - 1)
                             ELSE piece
                 IN <<line>> \o lines(SubSeq(content, p + 1, Len(content)))

RECURSIVE join(_, _)
\* [String]::join
join(ls_, sep) ==
    IF ls_ = <<>> THEN <<>>
    ELSE IF Len(ls_) = 1 THEN ls_[1]
    ELSE ls_[1] \o <<sep>> \o join(Tail(ls_), sep)

\* an applier that leaves out the last line feed
content_joined(ls_) == join(ls_, LF)

\* join("\n") and a last line feed when there is a line at all
content_to_write(ls_) ==
    IF ls_ = <<>> THEN <<>> ELSE join(ls_, LF) \o <<LF>>

\* file_lines.windows(n).enumerate().filter(window == target): the
\* positions, counted from 0, of the windows equal to the target
positions(file_lines, target) ==
    {pos \in 0..(Len(file_lines) - Len(target)) :
        SubSeq(file_lines, pos + 1, pos + Len(target)) = target}

\* an applier that forgets the lines behind the window
new_lines_truncated(file_lines, pos, block) ==
    SubSeq(file_lines, 1, pos) \o block.replace

\* file_lines[..pos], block.replace, file_lines[pos + target.len()..]
new_lines(file_lines, pos, block) ==
    SubSeq(file_lines, 1, pos)
    \o block.replace
    \o SubSeq(file_lines, pos + Len(block.target) + 1, Len(file_lines))

ChangeBlock(relative_path, target, replace) ==
    [relative_path |-> relative_path, target |-> target, replace |-> replace]

StatusLine(i, status, relative_path) ==
    [i |-> i, status |-> status, relative_path |-> relative_path]
Running == [r |-> "running", msg |-> "", n |-> 0, relative_path |-> <<>>]
Ok == [r |-> "Ok", msg |-> "", n |-> 0, relative_path |-> <<>>]
Failed(msg, n, relative_path) ==
    [r |-> "Err", msg |-> msg, n |-> n, relative_path |-> relative_path]

\* The lines of files and of blocks: a letter, another, a letter with a
\* blank behind it, the empty line.
FileLineSet == {<<"a">>, <<"b">>, <<"a", " ">>}
LineEnds == {<<LF>>, <<CR, LF>>}

RECURSIVE Terminated(_, _)
\* every line followed by the line ending
Terminated(ls_, ending) ==
    IF ls_ = <<>> THEN <<>>
    ELSE ls_[1] \o ending \o Terminated(Tail(ls_), ending)

\* files of up to MaxLines lines, with either line ending, with and
\* without the last one; and a file of one empty line
FileContents ==
    {Terminated(ls_, e) : ls_ \in SeqsUpTo(FileLineSet, MaxLines),
                          e \in LineEnds}
    \cup {join(ls_, LF) : ls_ \in SeqsUpTo(FileLineSet, MaxLines)}
    \cup {<<LF>>, <<"a", LF, LF, "b", LF>>}

Targets == SeqsUpTo(FileLineSet, MaxTarget) \cup {<< <<>> >>}
Replaces == {<<>>, << <<"b">> >>, << <<"a">>, <<"c">> >>}
RelativePaths == {<<"f">>, <<"d", "f">>, <<"g">>}

FirstBlocks ==
    {ChangeBlock(rp, t, r) : rp \in RelativePaths, t \in Targets,
                             r \in Replaces}
LaterBlocks ==
    {ChangeBlock(<<"f">>, << <<"b">> >>, << <<"a">> >>),
     ChangeBlock(<<"f">>, << <<"c">> >>, <<>>),
     ChangeBlock(<<"g">>, <<>>, << <<"a">> >>)}
BlockLists ==
    {<<>>}
    \cup {<<b>> \o rest : b \in FirstBlocks,
                          rest \in SeqsUpTo(LaterBlocks, MaxBlocks - 1)}

InitApply ==
    /\ InitDaemon
    /\ ag = AgentIdle
    /\ sx = StatusIdle
    /\ LibIdle(LibVars \ {"ap"})
    /\ \E at_f \in {Absent, Directory} \cup {RegularFile(c) : c \in FileContents},
          blocks \in BlockLists, disallow_creating \in BOOLEAN :
          ap = [pc |-> "apply",
                disk |-> [path \in DiskPaths |->
                             IF path = F THEN at_f ELSE Absent],
                blocks |-> blocks,
                disallow_creating |-> disallow_creating,
                i |-> 0,
                out |-> <<>>,
                result |-> Running,
                run |-> 1,
                disk0 |-> [path \in DiskPaths |->
                              IF path = F THEN at_f ELSE Absent],
                prev |-> [out |-> <<>>, result |-> Running]]

\* the loop goes on with the next block
Continue(a) == [a EXCEPT !.i = @ + 1]

\* println! of a status line, return Ok(())
Status(status) ==
    Continue([ap EXCEPT
                !.out = Append(@, StatusLine(ap.i, status,
                                   ap.blocks[ap.i + 1].relative_path))])

\* std::fs::write and the status line behind it
Written(path, content, status) ==
    [Status(status) EXCEPT !.disk[path] = RegularFile(content)]

\* an applier that reports the failure and goes on with the next block
FatalGoesOn(msg, n) == Status(msg)

\* bail!: apply_changes returns the error, no further block is looked at
Fatal(msg, n) ==
    [ap EXCEPT !.pc = "done",
               !.result = Failed(msg, n, ap.blocks[ap.i + 1].relative_path)]

\* One turn of the loop of apply_changes: apply_change_block on block i.
apply_change_block ==
    /\ ap.pc = "apply"
    /\ ap.i < Len(ap.blocks)
    /\ LET block == ap.blocks[ap.i + 1]
           path == path_to_use(ap.disk, block.relative_path)
           content == At(ap.disk, path).content
           file_lines == lines(content)
           found == positions(file_lines, block.target)
           pos == CHOOSE k \in found : TRUE
       IN ap' =
            IF exists(ap.disk, path)
            THEN IF ~is_file(ap.disk, path) THEN Status("FAILED: not a file")
                 ELSE IF block.target = <<>>
                 THEN IF content = <<>>
                      THEN Written(path, content_to_write(block.replace),
                                   "CREATED")
                      ELSE Fatal("empty target for existing, non-empty file",
                                0)
                 ELSE IF found = {} THEN Fatal("target not found", 0)
                 ELSE IF Cardinality(found) > 1
                 THEN Fatal("target found times", Cardinality(found))
                 ELSE Written(path,
                              content_to_write(
                                  new_lines(file_lines, pos, block)),
                              "OK")
            ELSE IF ap.disallow_creating
                 THEN Status("FAILED: disallow-creating")
            ELSE IF block.target # <<>>
                 THEN Status("FAILED: target not empty for creation")
            ELSE Written(path, content_to_write(block.replace), "CREATED")
    /\ UNCHANGED others_ap

\* behind the last block: Ok(())
apply_changes_ok ==
    /\ ap.pc = "apply"
    /\ ap.i = Len(ap.blocks)
    /\ ap' = [ap EXCEPT !.pc = "done", !.result = Ok]
    /\ UNCHANGED others_ap

\* The same input is handed to apply_changes once more: the disk is as
\* the call before left it, what that call printed and returned is kept.
apply_changes ==
    /\ ap.pc = "done"
    /\ ap.run < MaxRuns
    /\ ap' = [ap EXCEPT !.pc = "apply", !.i = 0, !.out = <<>>,
                        !.result = Running, !.run = @ + 1,
                        !.disk0 = ap.disk,
                        !.prev = [out |-> ap.out, result |-> ap.result]]
    /\ UNCHANGED others_ap

NextApply == apply_change_block \/ apply_changes_ok \/ apply_changes
SpecApply == InitApply /\ [][NextApply]_vars

\* The positions, counted from 1, at which the target stands in the lines:
\* line for line the same characters.
WindowsAt(file_lines, target) ==
    {k \in 1..Len(file_lines) :
        /\ k + Len(target) - 1 <= Len(file_lines)
        /\ \A j \in 1..Len(target) : file_lines[k + j - 1] = target[j]}

RECURSIVE EachWithNewline(_)
EachWithNewline(ls_) ==
    IF ls_ = <<>> THEN <<>>
    ELSE Head(ls_) \o <<LF>> \o EachWithNewline(Tail(ls_))

\* the block the loop is at, its file, and the file as the step leaves it
AtBlock == ap.pc = "apply" /\ ap.i < Len(ap.blocks)
ThisBlock == ap.blocks[ap.i + 1]
ThisPath == path_to_use(ap.disk, ThisBlock.relative_path)
UniqueTarget ==
    /\ AtBlock
    /\ is_file(ap.disk, ThisPath)
    /\ ThisBlock.target # <<>>
    /\ Cardinality(WindowsAt(lines(At(ap.disk, ThisPath).content),
                             ThisBlock.target)) = 1

\* C20: a block whose path is a regular file and whose target, not empty,
\* stands at exactly one window of the lines of the file leaves the file as
\* the lines before the window, the replace lines and the lines behind the
\* window, each followed by a line feed; the lines outside the window are
\* the lines they were, nothing else on disk changes, and the status line
\* [i] OK of the block is printed.
C20_UniqueTargetReplaced ==
    [][UniqueTarget =>
        LET old == lines(At(ap.disk, ThisPath).content)
            n == Len(ThisBlock.target)
            k == CHOOSE w \in WindowsAt(old, ThisBlock.target) : TRUE
            before == SubSeq(old, 1, k - 1)
            after == SubSeq(old, k + n, Len(old))
            new == lines(ap'.disk[ThisPath].content)
        IN /\ ap'.disk[ThisPath] =
                 RegularFile(EachWithNewline(
                     before \o ThisBlock.replace \o after))
           /\ SubSeq(new, 1, k - 1) = before
           /\ SubSeq(new, Len(new) - Len(after) + 1, Len(new)) = after
           /\ Len(new) = Len(old) - n + Len(ThisBlock.replace)
           /\ \A path \in DiskPaths \ {ThisPath} :
                 ap'.disk[path] = ap.disk[path]
           /\ ap'.out = Append(ap.out,
                               StatusLine(ap.i, "OK",
                                          ThisBlock.relative_path))
           /\ ap'.pc = "apply" /\ ap'.i = ap.i + 1]_vars

\* a block has replaced the one line of a file of three that is its target,
\* between a line that differs from it by a blank and a line behind it
C20_Witness ==
    /\ ap.pc = "done"
    /\ ap.run = 1
    /\ ap.result = Ok
    /\ Len(ap.blocks) = 1
    /\ ap.blocks[1].target = << <<"a">> >>
    /\ ap.blocks[1].replace = << <<"a">>, <<"c">> >>
    /\ ap.out = <<StatusLine(0, "OK", ap.blocks[1].relative_path)>>
    /\ ap.disk[F] = RegularFile(<<"a", " ", LF, "a", LF, "c", LF, "b", LF>>)

ThisContent == At(ap.disk, ThisPath).content
ThisWindows == Cardinality(WindowsAt(lines(ThisContent), ThisBlock.target))
LastStatus(out) == IF out = <<>> THEN "" ELSE out[Len(out)].status

\* C21: a block whose target, not empty, stands at no window or at more
\* than one window of the lines of an existing regular file leaves every
\* file as it is and prints nothing; apply_changes returns the error
\* 'target not found' or 'target found N times' with N the number of the
\* windows, and behind the error no step of that call follows.
C21_AmbiguousTargetIsFatal ==
    [][/\ (/\ AtBlock
           /\ is_file(ap.disk, ThisPath)
           /\ ThisBlock.target # <<>>
           /\ ThisWindows # 1)
          => /\ ap'.disk = ap.disk
             /\ ap'.out = ap.out
             /\ ap'.pc = "done"
             /\ ap'.i = ap.i
             /\ ap'.result =
                  Failed(IF ThisWindows = 0 THEN "target not found"
                         ELSE "target found times",
                         ThisWindows, ThisBlock.relative_path)
       /\ (ap.pc = "done" /\ ap.result.r = "Err" /\ ap'.run = ap.run)
          => ap' = ap]_vars

\* the first of two blocks found its target twice; the second was not
\* looked at
C21_Witness ==
    /\ ap.pc = "done"
    /\ ap.run = 1
    /\ Len(ap.blocks) = 2
    /\ ap.i = 0
    /\ ap.out = <<>>
    /\ ap.result = Failed("target found times", 2,
                          ap.blocks[1].relative_path)
    /\ ap.disk = ap.disk0
    /\ is_file(ap.disk, F)

\* C22: a block writes its replace lines, each followed by a line feed,
\* with the status CREATED exactly when its target is empty and its path is
\* absent with creation allowed or is an empty regular file; at an absent
\* path a block with a target or with creation disallowed changes nothing
\* and the loop goes on; an empty target on a regular file that is not
\* empty changes nothing and is fatal.
C22_CreationRules ==
    [][AtBlock =>
        LET absent == ~exists(ap.disk, ThisPath)
            empty_file == is_file(ap.disk, ThisPath) /\ ThisContent = <<>>
            creates == /\ ThisBlock.target = <<>>
                       /\ \/ absent /\ ~ap.disallow_creating
                          \/ empty_file
            prints_created == /\ Len(ap'.out) = Len(ap.out) + 1
                       /\ LastStatus(ap'.out) = "CREATED"
            goes_on == /\ ap'.pc = "apply"
                       /\ ap'.i = ap.i + 1
                       /\ ap'.result = Running
        IN /\ prints_created <=> creates
           /\ creates =>
                /\ ap'.disk =
                     [ap.disk EXCEPT ![ThisPath] =
                         RegularFile(EachWithNewline(ThisBlock.replace))]
                /\ goes_on
           /\ (absent /\ (ThisBlock.target # <<>> \/ ap.disallow_creating))
              => ap'.disk = ap.disk /\ goes_on
           /\ (/\ is_file(ap.disk, ThisPath)
               /\ ThisContent # <<>>
               /\ ThisBlock.target = <<>>)
              => /\ ap'.disk = ap.disk
                 /\ ap'.pc = "done"
                 /\ ap'.result.r = "Err"]_vars

\* an absent path was written from two replace lines, and the block behind
\* it created the sibling
C22_Witness ==
    /\ ap.pc = "done"
    /\ ap.run = 1
    /\ ap.result = Ok
    /\ ap.disk0[F] = Absent
    /\ ap.disk[F] = RegularFile(<<"a", LF, "c", LF>>)
    /\ ap.disk[G] = RegularFile(<<"a", LF>>)
    /\ Len(ap.out) = 2
    /\ ap.out[1].status = "CREATED"
    /\ ap.out[2].status = "CREATED"

\* C23: when an input of one block has been applied with the status OK and
\* is applied once more, the disk behind the second call is as the first
\* call left it.
C23_SecondApplicationChangesNothing ==
    (/\ ap.run = 2
     /\ ap.pc = "done"
     /\ Len(ap.blocks) = 1
     /\ Len(ap.prev.out) = 1
     /\ LastStatus(ap.prev.out) = "OK")
    => ap.disk = ap.disk0

\* C24: when a call of apply_changes has returned a fatal error, the disk
\* is as it was before the call.
C24_FatalErrorLeavesDiskAsBefore ==
    (ap.pc = "done" /\ ap.result.r = "Err") => ap.disk = ap.disk0

\* ================================================== the blocks of an input
\* parse_blocks (hnt-apply lib.rs lines 62-120).  The input is the sequence
\* of its lines, a line a sequence of atoms; each of the three markers is one
\* atom, which white space may surround.
MaxItems == 4      \* blocks, broken blocks and stretches of prose of an input

TargetMarker == "<<<<<<< TARGET"
SeparatorMarker == "======="
ReplaceMarker == ">>>>>>> REPLACE"

RECURSIVE position(_, _, _)
\* lines[i..].iter().position(|line| line.trim() == marker), as an index
\* into lines counted from 0; -1 for None
position(lines_, i, marker) ==
    IF i >= Len(lines_) THEN -1
    ELSE IF Trim(lines_[i + 1]) = <<marker>> THEN i
    ELSE position(lines_, i + 1, marker)

RECURSIVE rposition(_, _, _)
\* lines[i..end].iter().rposition(|line| !line.trim().is_empty()), as an
\* index into lines counted from 0; -1 for None
rposition(lines_, i, end) ==
    IF end <= i THEN -1
    ELSE IF Trim(lines_[end]) # <<>> THEN end - 1
    ELSE rposition(lines_, i, end - 1)

\* What an input is made of.  A block with its path line; the same with
\* blanks around the path and the markers; a block without a line above its
\* TARGET marker; a block without separator; a block without REPLACE marker;
\* prose with an empty line behind it.
Block1 == ChangeBlock(<<"p">>, << <<"x">> >>, << <<"y">> >>)
Block2 == ChangeBlock(<<"q">>, <<>>, << <<>>, <<"y", " ">> >>)
Item(kind, block) == [kind |-> kind, block |-> block]
Items ==
    {Item("block", Block1), Item("padded", Block2),
     Item("no path", Block1), Item("no separator", Block1),
     Item("no end", Block1), Item("prose", Block1)}

RenderBlock(b, pad) ==
    << pad \o b.relative_path \o pad, pad \o <<TargetMarker>> \o pad >>
    \o b.target
    \o << pad \o <<SeparatorMarker>> >>
    \o b.replace
    \o << <<ReplaceMarker>> \o pad >>

Render(item) ==
    LET b == item.block
    IN CASE item.kind = "block" -> RenderBlock(b, <<>>)
         [] item.kind = "padded" -> RenderBlock(b, <<" ">>)
         [] item.kind = "no path" -> Tail(RenderBlock(b, <<>>))
         [] item.kind = "no separator" ->
                <<b.relative_path, <<TargetMarker>>>> \o b.target
                \o <<<<ReplaceMarker>>>>
         [] item.kind = "no end" ->
                <<b.relative_path, <<TargetMarker>>>> \o b.target
                \o <<<<SeparatorMarker>>>> \o b.replace
         [] item.kind = "prose" -> << <<"w", " ", "w">>, <<>> >>

RECURSIVE RenderAll(_)
RenderAll(items) ==
    IF items = <<>> THEN <<>>
    ELSE Render(Head(items)) \o RenderAll(Tail(items))

InitParse ==
    /\ InitDaemon
    /\ ag = AgentIdle
    /\ sx = StatusIdle
    /\ LibIdle(LibVars \ {"pb"})
    /\ \E items \in SeqsUpTo(Items, MaxItems) :
          pb = [pc |-> "parse", items |-> items, lines |-> RenderAll(items),
                i |-> 0, blocks |-> <<>>, result |-> "running"]

\* break, and Ok(blocks) behind the loop
ReturnBlocks(pb_) == [pb_ EXCEPT !.pc = "parsed", !.result = "Ok"]

\* One turn of the loop of parse_blocks.
parse_blocks ==
    /\ pb.pc = "parse"
    /\ LET i == pb.i
           start_marker_idx == position(pb.lines, i, TargetMarker)
           path_line_idx == rposition(pb.lines, i, start_marker_idx)
           path == Trim(pb.lines[path_line_idx + 1])
           equals_marker_idx ==
               position(pb.lines, start_marker_idx + 1, SeparatorMarker)
           target == SubSeq(pb.lines, start_marker_idx + 2, equals_marker_idx)
           end_marker_idx ==
               position(pb.lines, equals_marker_idx + 1, ReplaceMarker)
           replace == SubSeq(pb.lines, equals_marker_idx + 2, end_marker_idx)
       IN pb' =
            IF ~(i < Len(pb.lines)) THEN ReturnBlocks(pb)
            ELSE IF start_marker_idx = -1 THEN ReturnBlocks(pb)
            ELSE IF path_line_idx = -1 THEN ReturnBlocks(pb)
            ELSE IF equals_marker_idx = -1 THEN ReturnBlocks(pb)
            ELSE IF end_marker_idx = -1 THEN ReturnBlocks(pb)
            ELSE [pb EXCEPT
                    !.blocks = Append(@, ChangeBlock(path, target, replace)),
                    !.i = end_marker_idx + 1]
    /\ UNCHANGED others_pb

NextParse == parse_blocks
SpecParse == InitParse /\ [][NextParse]_vars

RECURSIVE CompleteBefore(_, _)
\* The complete blocks in front of the first broken one.  A block without
\* a path line of its own that stands behind prose has the last line of the
\* prose as the last non-empty line above its marker.
CompleteBefore(items, behind_prose) ==
    IF items = <<>> THEN <<>>
    ELSE LET item == Head(items)
             rest == Tail(items)
         IN CASE item.kind \in {"block", "padded"} ->
                    <<item.block>> \o CompleteBefore(rest, FALSE)
              [] item.kind = "prose" -> CompleteBefore(rest, TRUE)
              [] item.kind = "no path" ->
                    IF behind_prose
                    THEN <<[item.block EXCEPT
                              !.relative_path = <<"w", " ", "w">>]>>
                         \o CompleteBefore(rest, FALSE)
                    ELSE <<>>
              [] OTHER -> <<>>

\* C25: parse_blocks returns Ok with exactly the complete blocks in front
\* of the first block that lacks its path line, its separator or its REPLACE
\* marker, in the order of the input, each with the last non-empty line
\* above its TARGET marker as its path, whatever prose stands before,
\* between and behind the blocks.
C25_CompleteBlocksBeforeBroken ==
    pb.pc = "parsed" =>
        /\ pb.result = "Ok"
        /\ pb.blocks = CompleteBefore(pb.items, FALSE)

\* ================================================ the lock of a session
\* Session::create (headlesh lib.rs lines 50-75), list (412-449) and what
\* run_daemon does to pid.lock (327-331 and 405-406), statement by
\* statement, for callers and daemons that run side by side.  An inode is a
\* number, 0 is no inode; the holder of the flock of an inode is 0 (nobody),
\* a daemon, or CallerId of a caller.
NSessionDaemons == 2   \* daemons spawned for the session
NCallers == 2          \* processes that call create and list
MaxOps == 2            \* calls of one caller
MaxInodes == 2         \* pid.lock files made

SessionDaemons == 1..NSessionDaemons
Callers == 1..NCallers
Inodes == 1..MaxInodes
CallerId(c) == 10 + c
SessionIds == {<<"s">>, <<"a", "/", "b">>, <<"a", "..", "b">>}

\* session_id.contains('/') || session_id.contains("..")
InvalidId(id) == \E k \in 1..Len(id) : id[k] \in {"/", ".."}

NoProbe == [at |-> "none", path_holder |-> "nobody", daemon_holds |-> FALSE,
            daemon_serves |-> FALSE]
IdleCaller ==
    [pc |-> "idle", op |-> "none", id |-> <<>>, fd |-> 0, ops |-> 0,
     ret |-> "none", made |-> {}, probe |-> NoProbe]

InitSession ==
    /\ InitDaemon
    /\ ag = AgentIdle
    /\ sx = StatusIdle
    /\ LibIdle(LibVars \ {"ss"})
    /\ ss = [dir |-> FALSE, log |-> FALSE, lock_path |-> 0, inodes |-> 0,
             holder |-> [i \in Inodes |-> 0],
             session |-> FALSE,
             dmn |-> [d \in SessionDaemons |-> [pc |-> "none", fd |-> 0]],
             clr |-> [c \in Callers |-> IdleCaller]]

\* who holds what, as a caller finds it at the statement that decides
HolderKind(h) == IF h = 0 THEN "nobody"
                 ELSE IF h \in SessionDaemons THEN "daemon" ELSE "caller"
\* some daemon holds the lock of its inode; one that has not begun to
\* leave does
DaemonHolds == \E i \in Inodes : ss.holder[i] \in SessionDaemons
DaemonServes ==
    \E d \in SessionDaemons :
        ss.dmn[d].pc = "serving" /\ ss.holder[ss.dmn[d].fd] = d
\* inode 0: the caller found no pid.lock
Probe(at, inode) ==
    [at |-> at,
     path_holder |-> IF inode = 0 THEN "nobody"
                     ELSE HolderKind(ss.holder[inode]),
     daemon_holds |-> DaemonHolds,
     daemon_serves |-> DaemonServes]

\* ---- run_daemon and pid.lock
\* Session::spawn on a Session value that create returned
session_spawn(d) ==
    /\ ss.session
    /\ ss.dmn[d].pc = "none"
    /\ ss' = [ss EXCEPT !.dmn[d].pc = "create_lock"]
    /\ UNCHANGED others_ss

\* File::create(&lock_path)?: a new inode when there is none at the path
session_daemon_create_lock(d) ==
    /\ ss.dmn[d].pc = "create_lock"
    /\ ss.lock_path # 0 \/ ss.inodes < MaxInodes
    /\ LET i == IF ss.lock_path # 0 THEN ss.lock_path ELSE ss.inodes + 1
       IN ss' = [ss EXCEPT !.lock_path = i,
                           !.inodes = IF ss.lock_path # 0 THEN @ ELSE @ + 1,
                           !.dmn[d] = [pc |-> "lock", fd |-> i]]
    /\ UNCHANGED others_ss

\* file.lock_exclusive()?: waits until nobody holds the lock of the inode
session_daemon_lock(d) ==
    /\ ss.dmn[d].pc = "lock"
    /\ ss.holder[ss.dmn[d].fd] = 0
    /\ ss' = [ss EXCEPT !.holder[ss.dmn[d].fd] = d, !.dmn[d].pc = "serving"]
    /\ UNCHANGED others_ss

\* a ? behind the lock returns an error (remove_file, mkfifo, spawn of the
\* shell): the process exits, its lock is released, pid.lock stays
session_daemon_fails(d) ==
    /\ ss.dmn[d].pc = "serving"
    /\ ss' = [ss EXCEPT !.holder[ss.dmn[d].fd] = 0,
                        !.dmn[d] = [pc |-> "ended", fd |-> 0]]
    /\ UNCHANGED others_ss

\* behind the exit sentinel: let _ = fs::remove_file(&lock_path)
session_daemon_remove_lock(d) ==
    /\ ss.dmn[d].pc = "serving"
    /\ ss' = [ss EXCEPT !.lock_path = 0, !.dmn[d].pc = "exiting"]
    /\ UNCHANGED others_ss

\* Ok(()) and std::process::exit(0): the lock is released with the process
session_daemon_exit(d) ==
    /\ ss.dmn[d].pc = "exiting"
    /\ ss' = [ss EXCEPT !.holder[ss.dmn[d].fd] = 0,
                        !.dmn[d] = [pc |-> "ended", fd |-> 0]]
    /\ UNCHANGED others_ss

\* ---- Session::create
Returns(c, ret, probe) ==
    [ss EXCEPT !.clr[c].pc = "returned", !.clr[c].ret = ret,
               !.clr[c].probe = probe, !.clr[c].fd = 0,
               !.session = @ \/ ret = "Ok"]

session_call(c) ==
    /\ ss.clr[c].pc \in {"idle", "returned"}
    /\ ss.clr[c].ops < MaxOps
    /\ \/ \E id \in SessionIds :
             ss' = [ss EXCEPT !.clr[c] =
                       [IdleCaller EXCEPT !.pc = "create", !.op = "create",
                                          !.id = id,
                                          !.ops = ss.clr[c].ops + 1]]
       \/ ss' = [ss EXCEPT !.clr[c] =
                    [IdleCaller EXCEPT !.pc = "list", !.op = "list",
                                       !.ops = ss.clr[c].ops + 1]]
    /\ UNCHANGED others_ss

\* the check of the id, and session_path.exists()
create_validate(c) ==
    /\ ss.clr[c].pc = "create"
    /\ ss' = IF InvalidId(ss.clr[c].id)
             THEN Returns(c, "InvalidSessionId", NoProbe)
             ELSE IF ss.dir THEN [ss EXCEPT !.clr[c].pc = "create_lock_exists"]
             ELSE [ss EXCEPT !.clr[c].pc = "create_dirs",
                             !.clr[c].probe = Probe("session_path", 0)]
    /\ UNCHANGED others_ss

\* lock_path.exists()
create_lock_exists(c) ==
    /\ ss.clr[c].pc = "create_lock_exists"
    /\ ss' = IF ss.lock_path # 0 THEN [ss EXCEPT !.clr[c].pc = "create_open"]
             ELSE [ss EXCEPT !.clr[c].pc = "create_dirs",
                             !.clr[c].probe = Probe("lock_path", 0)]
    /\ UNCHANGED others_ss

\* File::open(&lock_path)?
create_open(c) ==
    /\ ss.clr[c].pc = "create_open"
    /\ ss' = IF ss.lock_path = 0 THEN Returns(c, "Io", Probe("open", 0))
             ELSE [ss EXCEPT !.clr[c].pc = "create_try_lock",
                             !.clr[c].fd = ss.lock_path]
    /\ UNCHANGED others_ss

\* file.try_lock_exclusive().is_err()
create_try_lock(c) ==
    /\ ss.clr[c].pc = "create_try_lock"
    /\ ss' = IF ss.holder[ss.clr[c].fd] # 0
             THEN Returns(c, "SessionAlreadyExists",
                          Probe("try_lock", ss.clr[c].fd))
             ELSE [ss EXCEPT !.holder[ss.clr[c].fd] = CallerId(c),
                             !.clr[c].pc = "create_drop",
                             !.clr[c].probe = Probe("try_lock", ss.clr[c].fd)]
    /\ UNCHANGED others_ss

\* the file goes out of scope: the lock that create took is released
create_drop(c) ==
    /\ ss.clr[c].pc = "create_drop"
    /\ ss' = [ss EXCEPT !.holder[ss.clr[c].fd] = 0, !.clr[c].fd = 0,
                        !.clr[c].pc = "create_dirs"]
    /\ UNCHANGED others_ss

\* fs::create_dir_all of the session directory and of the log directory,
\* Ok(Session { session_id })
create_dirs(c) ==
    /\ ss.clr[c].pc = "create_dirs"
    /\ ss' = [Returns(c, "Ok", ss.clr[c].probe) EXCEPT
                !.dir = TRUE, !.log = TRUE,
                !.clr[c].made = (IF ss.dir THEN {} ELSE {"session"})
                                \cup (IF ss.log THEN {} ELSE {"log"})]
    /\ UNCHANGED others_ss

\* ---- list
\* session_dir.exists(), read_dir, lock_path.exists()
list_lock_exists(c) ==
    /\ ss.clr[c].pc = "list"
    /\ ss' = IF ss.dir /\ ss.lock_path # 0
             THEN [ss EXCEPT !.clr[c].pc = "list_open"]
             ELSE Returns(c, "none listed", Probe("lock_path", 0))
    /\ UNCHANGED others_ss

\* File::open(&lock_path), Err(_) => continue
list_open(c) ==
    /\ ss.clr[c].pc = "list_open"
    /\ ss' = IF ss.lock_path = 0
             THEN Returns(c, "none listed", Probe("open", 0))
             ELSE [ss EXCEPT !.clr[c].pc = "list_try_lock",
                             !.clr[c].fd = ss.lock_path]
    /\ UNCHANGED others_ss

\* lock_file.try_lock_exclusive().is_err(): the session is pushed
list_try_lock(c) ==
    /\ ss.clr[c].pc = "list_try_lock"
    /\ ss' = IF ss.holder[ss.clr[c].fd] # 0
             THEN Returns(c, "session listed",
                          Probe("try_lock", ss.clr[c].fd))
             ELSE [ss EXCEPT !.holder[ss.clr[c].fd] = CallerId(c),
                             !.clr[c].pc = "list_drop",
                             !.clr[c].probe = Probe("try_lock", ss.clr[c].fd)]
    /\ UNCHANGED others_ss

\* lock_file goes out of scope, Ok(sessions)
list_drop(c) ==
    /\ ss.clr[c].pc = "list_drop"
    /\ ss' = [Returns(c, "none listed", ss.clr[c].probe) EXCEPT
                !.holder[ss.clr[c].fd] = 0]
    /\ UNCHANGED others_ss

NextSession ==
    \/ \E d \in SessionDaemons :
          \/ session_spawn(d)
          \/ session_daemon_create_lock(d)
          \/ session_daemon_lock(d)
          \/ session_daemon_fails(d)
          \/ session_daemon_remove_lock(d)
          \/ session_daemon_exit(d)
    \/ \E c \in Callers :
          \/ session_call(c)
          \/ create_validate(c)
          \/ create_lock_exists(c)
          \/ create_open(c)
          \/ create_try_lock(c)
          \/ create_drop(c)
          \/ create_dirs(c)
          \/ list_lock_exists(c)
          \/ list_open(c)
          \/ list_try_lock(c)
          \/ list_drop(c)
SpecSession == InitSession /\ [][NextSession]_vars

ReturnedFrom(c, op) == ss.clr[c].pc = "returned" /\ ss.clr[c].op = op

\* C26: a call of Session::create that has returned gave InvalidSessionId
\* exactly for an id with a slash or two dots, SessionAlreadyExists exactly
\* when it found the session directory and a pid.lock that a daemon held
\* locked, and Ok otherwise, with the session and log directories on disk;
\* a call that failed made no directory.
C26_CreateOutcomes ==
    \A c \in Callers :
        ReturnedFrom(c, "create") =>
            LET r == ss.clr[c]
                bad_id == \E k \in 1..Len(r.id) : r.id[k] = "/" \/ r.id[k] = ".."
                locked == /\ ~bad_id
                          /\ r.probe.at = "try_lock"
                          /\ r.probe.path_holder = "daemon"
            IN /\ r.ret = "InvalidSessionId" <=> bad_id
               /\ r.ret = "SessionAlreadyExists" <=> locked
               /\ r.ret = "Ok" <=> (~bad_id /\ ~locked)
               /\ r.ret = "Ok" => ss.dir /\ ss.log
               /\ r.ret # "Ok" => r.made = {}

\* C27: a call of list that has returned reported the session only when a
\* daemon held the lock at the statement that decided, and always when a
\* daemon that had not begun to leave held it; a call of create that
\* returned SessionAlreadyExists found a daemon holding it; whatever other
\* calls of list and create ran at the same time.
C27_LockIsTheAuthority ==
    \A c \in Callers :
        /\ ReturnedFrom(c, "list") =>
              /\ ss.clr[c].ret = "session listed"
                    => ss.clr[c].probe.daemon_holds
              /\ ss.clr[c].probe.daemon_serves
                    => ss.clr[c].ret = "session listed"
        /\ ReturnedFrom(c, "create") =>
              (ss.clr[c].ret = "SessionAlreadyExists"
                  => ss.clr[c].probe.daemon_holds)

\* ============================================== the turn counters on resume
\* hnt-agent main.rs lines 414-456: with --session the files of the
\* conversation directory are counted before the first prompt is shown.  A
\* file name is a sequence of atoms, its first the time stamp.
MaxEntries == 4    \* files of the conversation directory

UserRequest_ == <<"<user_request>", "x", "</user_request>">>
ShellResults == <<"<hnt-shell-results>", "x", "</hnt-shell-results>">>
EntryKinds ==
    {[suffix |-> <<"-", "assistant", ".md">>, content |-> <<"x">>],
     [suffix |-> <<"-", "user", ".md">>, content |-> UserRequest_],
     [suffix |-> <<"-", "user", ".md">>, content |-> ShellResults],
     [suffix |-> <<"-", "assistant", "-", "reasoning", ".md">>,
      content |-> <<"x">>]}

\* fs::read_dir, sorted by file name: the time stamps are in order
DirEntry(k, kind) == [file_name |-> <<k>> \o kind.suffix,
                      content |-> kind.content]
Directories ==
    {[k \in 1..Len(kinds) |-> DirEntry(k, kinds[k])] :
        kinds \in SeqsUpTo(EntryKinds, MaxEntries)}

InitResume ==
    /\ InitDaemon
    /\ ag = AgentIdle
    /\ sx = StatusIdle
    /\ LibIdle(LibVars \ {"rsm"})
    /\ \E session \in BOOLEAN, entries \in Directories :
          rsm = [pc |-> "counters", session |-> session, entries |-> entries,
                 k |-> 1, human_turn_counter |-> 0, turn_counter |-> 0,
                 assistant_turn_count |-> 0, user_turn_count |-> 0,
                 last_assistant_message |-> <<>>, headers |-> <<>>]

\* let mut human_turn_counter = 1; let mut turn_counter = 1;
\* if cli.session.is_some() { .. }
resume_counters ==
    /\ rsm.pc = "counters"
    /\ rsm' = [rsm EXCEPT !.human_turn_counter = 1, !.turn_counter = 1,
                          !.pc = IF rsm.session THEN "entries" ELSE "prompt"]
    /\ UNCHANGED others_rsm

\* one turn of for entry in entries
resume_entry ==
    /\ rsm.pc = "entries"
    /\ rsm.k <= Len(rsm.entries)
    /\ LET entry == rsm.entries[rsm.k]
       IN rsm' =
            IF ends_with(entry.file_name, <<"-", "assistant", ".md">>)
            THEN [rsm EXCEPT !.k = @ + 1, !.assistant_turn_count = @ + 1,
                             !.last_assistant_message = <<entry.content>>]
            ELSE IF /\ ends_with(entry.file_name, <<"-", "user", ".md">>)
                    /\ Contains(entry.content, <<"<user_request>">>)
            THEN [rsm EXCEPT !.k = @ + 1, !.user_turn_count = @ + 1]
            ELSE [rsm EXCEPT !.k = @ + 1]
    /\ UNCHANGED others_rsm

\* if let Some(last_message) = last_assistant_message
HasLast(r) == r.last_assistant_message # <<>>

\* behind the loop: the counters and the header of the last assistant turn
resume_last_message ==
    /\ rsm.pc = "entries"
    /\ rsm.k > Len(rsm.entries)
    /\ rsm' =
         IF HasLast(rsm)
         THEN [rsm EXCEPT
                 !.pc = "prompt",
                 !.human_turn_counter = rsm.user_turn_count + 1,
                 !.turn_counter = rsm.assistant_turn_count + 1,
                 !.headers = Append(@, [role |-> "hinata",
                                        turn |-> rsm.assistant_turn_count])]
         ELSE [rsm EXCEPT !.pc = "prompt"]
    /\ UNCHANGED others_rsm

\* print_turn_header("querent", human_turn_counter); human_turn_counter += 1
resume_prompt ==
    /\ rsm.pc = "prompt"
    /\ rsm' = [rsm EXCEPT
                 !.pc = "prompted",
                 !.headers = Append(@, [role |-> "querent",
                                        turn |-> rsm.human_turn_counter]),
                 !.human_turn_counter = @ + 1]
    /\ UNCHANGED others_rsm

NextResume ==
    resume_counters \/ resume_entry \/ resume_last_message \/ resume_prompt
SpecResume == InitResume /\ [][NextResume]_vars

\* the messages of a directory that are of a role and hold a text
NumberOf(entries, role, text) ==
    Cardinality({k \in 1..Len(entries) :
        /\ entries[k].file_name = <<k, "-", role, ".md">>
        /\ \E j \in 1..Len(entries[k].content) :
              entries[k].content[j] = text})

\* C28: on resume of a directory with u user messages that hold
\* <user_request> and a assistant messages, the header of the new prompt
\* carries the human turn u + 1 and the assistant turn counter is a + 1.
C28_ResumeTurnCounters ==
    (rsm.pc = "prompted" /\ rsm.session) =>
        /\ rsm.headers[Len(rsm.headers)] =
              [role |-> "querent",
               turn |-> NumberOf(rsm.entries, "user", "<user_request>") + 1]
        /\ rsm.turn_counter = NumberOf(rsm.entries, "assistant", "x") + 1

\* ------------------------------------------- the clients of one session
\* the call of client c has sent its payload and has not read its status
CommandInFlight(c) ==
    /\ cl[c].pc \in {"outputs", "status"}
    /\ cl[c].t["status"] # "done"
\* the open of cmd.fifo for writing has returned in a command call of c
PastOpenOfCmdFifo(c) ==
    /\ cl[c].pc \in {"write", "outputs", "status"}
    /\ calls[cl[c].call].kind = "exec"

\* C29: while the command of one client has not completed (its status has
\* not been written), no other client is past its open of cmd.fifo for
\* writing with a command payload, and a daemon holds no payload of a further
\* command and has handed no further command to its shell.
C29_ClientsSerialize ==
    /\ \A c1, c2 \in Clients :
          (c1 # c2 /\ CommandInFlight(c1)) => ~PastOpenOfCmdFifo(c2)
    /\ \A d \in Daemons :
          /\ Len(sh[d].q) <= 1
          /\ (dm[d].pc = "parsed" /\ ~IsExitCmd(ParsePayload(dm[d].acc)))
                => sh[d].q = <<>>

\* ------------------------------------- a script that could not be handed
\* The daemon, its shell and every client are processes of their own: a
\* step of one of them that stays possible is taken in the end.  Calls,
\* spawns and environment failures need never happen.
DaemonSteps(d) ==
    \/ run_daemon_create_lock(d) \/ run_daemon_lock(d)
    \/ run_daemon_rmfifo(d) \/ run_daemon_mkfifo(d)
    \/ run_daemon_open(d) \/ run_daemon_read(d) \/ run_daemon_eof(d)
    \/ run_daemon_dispatch(d)
    \/ run_daemon_w127_open(d) \/ run_daemon_w127(d)
    \/ run_daemon_exit_rmfifo(d) \/ run_daemon_exit_rmlock(d)
    \/ run_daemon_exit_return(d)
ShellSteps(d) ==
    \/ shell_open_out(d) \/ shell_open_err(d) \/ shell_run(d)
    \/ shell_open_status(d) \/ shell_status(d)
ClientSteps(c) ==
    \/ exec_captured_mkfifo(c) \/ open_cmd_fifo(c) \/ write_payload(c)
    \/ exec_captured_join(c) \/ exec_captured_return(c)
Fairness ==
    /\ \A d \in Daemons : WF_vars(DaemonSteps(d)) /\ WF_vars(ShellSteps(d))
    /\ \A c \in Clients : WF_vars(ClientSteps(c))
SpecFair == Init /\ [][Next]_vars /\ Fairness

\* handing the script of call k failed in daemon d while the call waits
HandOverFailed(d, k) ==
    LET tg == Target(ParsePayload(dm[d].acc).status) IN
    /\ dm[d].pc = "w127"
    /\ IsFifo(tg) /\ tg[3] = k
    /\ cl[tg[2]].call = k
\* the call has returned Ok with the exit status 127
Returned127(k) == rets[k].r = "Ok" /\ rets[k].exit_status = 127

\* C30: when the daemon failed to hand the script of a waiting call to the
\* shell, the call returns in the end, with the exit status 127.
C30_FailedHandOverReturns127 ==
    \A d \in Daemons : \A k \in 1..MaxCalls :
        HandOverFailed(d, k) ~> Returned127(k)

\* ------------------------------------------- the serve loop and its errors
\* One daemon past its start-up (lock taken, cmd.fifo made, shell spawned)
\* in the loop of run_daemon (lib.rs 345-403), with the texts of the
\* payloads written out and with the errors its system calls may return.
MaxPayloads == 3   \* payloads written to cmd.fifo in one behaviour
MaxErrors == 2     \* errors of the environment in one behaviour

ExitCmdText == "__HEADLESH_INTERNAL_EXIT_CMD__"
InvalidUtf8 == "0xFF"       \* a byte that is no UTF-8
OutPath == "/tmp/headlesh_out_1"
ErrPath == "/tmp/headlesh_err_1"
StatusPath == "/tmp/headlesh_status_1"

\* the command texts a caller passes to exec / exec_captured
ScriptTexts ==
    {<<"ls">>, <<>>, <<ExitCmdText>>, <<ExitCmdText, LF>>,
     <<ExitCmdText, CR, LF>>, <<" ", ExitCmdText>>,
     <<"ls", LF, ExitCmdText>>}

\* format!("{}\n{}\n{}\n{}", out, err, status, command) of exec_captured
ExecPayloadText(command) ==
    <<OutPath, LF, ErrPath, LF, StatusPath, LF>> \o command
\* the payload of Session::exit
ExitPayloadText ==
    <<"/dev/null", LF, "/dev/null", LF, "/dev/null", LF, ExitCmdText>>

\* what a writer puts into cmd.fifo between its open and its close: a call
\* of exec / exec_captured, a call of exit, or any other process
Writes ==
    {[by |-> "exec", text |-> ExecPayloadText(c)] : c \in ScriptTexts}
    \cup {[by |-> "exit", text |-> ExitPayloadText]}
    \cup {[by |-> "other", text |-> t] : t \in {<<>>, <<InvalidUtf8>>}}

\* the errors a step of the loop may meet
HandOverErrors == {"NamedTempFile::new", "tmp_script.write_all",
                   "shell_stdin.write_all", "shell_stdin.flush"}

\* lines.next().unwrap_or("/dev/null") three times, the rest joined
PayloadLine(ls_, n) == IF Len(ls_) >= n THEN ls_[n] ELSE <<"/dev/null">>
CommandOf(payload_str) ==
    LET ls_ == lines(payload_str) IN
    IF Len(ls_) > 3 THEN join(SubSeq(ls_, 4, Len(ls_)), LF) ELSE <<>>
StatusPathOf(payload_str) == PayloadLine(lines(payload_str), 3)

ServeStart ==
    [pc |-> "open", held |-> TRUE, result |-> "running",
     fifo_path |-> TRUE, lock_path |-> TRUE,
     writes |-> <<>>,          \* what the writers wrote, in order
     by |-> "none",            \* the writer of the payload at hand
     payload_str |-> <<>>,
     shell_spawned |-> 1,      \* Command::new(shell).spawn() so far
     shell_stdin |-> <<>>,     \* the command lines written to the shell
     accepted |-> 0,           \* payloads that got past the sentinel test
     errors |-> <<>>,          \* the errors met, in order
     after_error |-> 0,        \* payloads accepted after the last error
     log |-> <<>>,             \* eprintln! of the loop
     status |-> <<>>]          \* what was written to status paths
InitServe ==
    /\ sv = ServeStart
    /\ InitDaemon /\ ag = AgentIdle /\ sx = StatusIdle
    /\ LibIdle(LibVars \ {"sv"})

\* return Err(e) from run_daemon through `?`: the process ends, its lock
\* goes with it, cmd.fifo and pid.lock stay on disk
ServeReturnErr(what) ==
    sv' = [sv EXCEPT !.pc = "returned", !.result = "Err", !.held = FALSE,
                     !.errors = Append(@, what), !.after_error = 0]

\* let mut cmd_fifo_file = File::open(&fifo_path)?;  (line 347): returns
\* when a writer opens the FIFO, or fails
serve_open ==
    /\ sv.pc = "open"
    /\ \/ /\ Len(sv.writes) < MaxPayloads
          /\ \E w \in Writes :
               sv' = [sv EXCEPT !.pc = "read", !.writes = Append(@, w),
                                !.by = w.by, !.payload_str = w.text]
       \/ /\ Len(sv.errors) < MaxErrors
          /\ ServeReturnErr("File::open")
    /\ UNCHANGED others_sv

\* cmd_fifo_file.read_to_string(&mut payload_str)?;  (line 349) fails on a
\* read error and on bytes that are no UTF-8; an empty payload is skipped
\* (lines 351-353)
serve_read ==
    /\ sv.pc = "read"
    /\ \/ /\ \E i \in 1..Len(sv.payload_str) :
                sv.payload_str[i] = InvalidUtf8
          /\ ServeReturnErr("read_to_string: invalid UTF-8")
       \/ /\ Len(sv.errors) < MaxErrors
          /\ ServeReturnErr("read_to_string")
       \/ /\ \A i \in 1..Len(sv.payload_str) :
                sv.payload_str[i] # InvalidUtf8
          /\ sv' = [sv EXCEPT !.pc = IF sv.payload_str = <<>> THEN "open"
                                     ELSE "parsed"]
    /\ UNCHANGED others_sv

\* the command line written to the shell (lines 372-381)
ShellCmd(payload_str) ==
    [script |-> CommandOf(payload_str),
     out |-> PayloadLine(lines(payload_str), 1),
     err |-> PayloadLine(lines(payload_str), 2),
     status |-> StatusPathOf(payload_str)]

\* lines 355-389: the sentinel breaks the loop; else the closure makes the
\* temporary script and writes the command line to the shell's stdin, and
\* any of its four `?` ends it with Err
serve_dispatch ==
    /\ sv.pc = "parsed"
    /\ IF CommandOf(sv.payload_str) = <<ExitCmdText>>
       THEN sv' = [sv EXCEPT !.pc = "exit"]
       ELSE \/ sv' = [sv EXCEPT
                        !.pc = "open",
                        !.accepted = @ + 1,
                        !.after_error = IF sv.errors = <<>> THEN 0 ELSE @ + 1,
                        !.shell_stdin = Append(@, ShellCmd(sv.payload_str))]
            \/ /\ Len(sv.errors) < MaxErrors
               /\ \E e \in HandOverErrors :
                    sv' = [sv EXCEPT
                             !.pc = "w127",
                             !.accepted = @ + 1,
                             !.errors = Append(@, e),
                             !.after_error = 0,
                             !.log = Append(@, "Error executing command")]
    /\ UNCHANGED others_sv

\* lines 391-402: if the status path can be opened for writing, 127 is
\* written to it; the loop goes on in either case
serve_w127 ==
    /\ sv.pc = "w127"
    /\ \E opened \in BOOLEAN :
         sv' = [sv EXCEPT
                  !.pc = "open",
                  !.status = IF opened
                             THEN Append(@, <<StatusPathOf(sv.payload_str),
                                              "1", "2", "7">>)
                             ELSE @]
    /\ UNCHANGED others_sv

\* lines 405-408 after the break
serve_exit ==
    /\ sv.pc = "exit"
    /\ sv' = [sv EXCEPT !.pc = "returned", !.result = "Ok", !.held = FALSE,
                        !.fifo_path = FALSE, !.lock_path = FALSE]
    /\ UNCHANGED others_sv

NextServe ==
    serve_open \/ serve_read \/ serve_dispatch \/ serve_w127 \/ serve_exit
SpecServe == InitServe /\ [][NextServe]_vars

\* the daemon is in its serve loop
InServeLoop == sv.pc \in {"open", "read", "parsed", "w127"}
LastError == sv.errors[Len(sv.errors)]
StdinErrors == {"shell_stdin.write_all", "shell_stdin.flush"}

\* C31: after an error in writing a command line to the shell's stdin the
\* daemon is out of its serve loop and has accepted no further payload.
C31_StdinErrorIsFatal ==
    (sv.errors # <<>> /\ LastError \in StdinErrors) =>
        /\ ~InServeLoop
        /\ sv.after_error = 0

\* no error met so far is an error of the shell's stdin
OnlyOtherErrors ==
    /\ sv.errors # <<>>
    /\ \A i \in 1..Len(sv.errors) : sv.errors[i] \notin StdinErrors

\* C32: after I/O errors of the serve loop that are not errors of the
\* shell's stdin the daemon has not returned an error: it is in its loop
\* with its lock held, or an exit payload has ended it; and the shell is
\* never spawned again.
C32_OtherErrorsLoop ==
    /\ sv.pc # "idle" => sv.shell_spawned = 1
    /\ OnlyOtherErrors =>
          /\ sv.result # "Err"
          /\ InServeLoop => sv.held

\* every payload so far was written by exec / exec_captured, with no error
OnlyExecCalls ==
    /\ sv.pc # "idle"
    /\ sv.errors = <<>>
    /\ \A i \in 1..Len(sv.writes) : sv.writes[i].by = "exec"

\* C39: as long as only exec / exec_captured calls were made, whatever
\* their scripts, the daemon is in its serve loop with its lock held, and
\* between two payloads every script has been handed to the shell.
C39_OnlyExitShutsDown ==
    OnlyExecCalls =>
        /\ InServeLoop /\ sv.held
        /\ sv.pc = "open" => Len(sv.shell_stdin) = Len(sv.writes)

\* ------------------------------------------- the rendering of reasoning
\* generate (libhinata-core llm.rs 377-433) and do_generate (hnt-llm
\* main.rs 61-125) are the same loop over the events of one stream.
MaxRendered == 4   \* Content and Reasoning events of one stream

ContentEvent == [kind |-> "Content", text |-> "c"]
ReasoningEvent == [kind |-> "Reasoning", text |-> "r"]
ErrEvent == [kind |-> "Err", text |-> "e"]
OpenThink == "<think>"
CloseThink == "</think>\n"

\* the streams: Content and Reasoning events in any order, ended by the end
\* of the stream or by one terminal error event
RenderedStreams ==
    LET body == SeqsUpTo({ContentEvent, ReasoningEvent}, MaxRendered)
    IN body \cup {Append(b, ErrEvent) : b \in body}

InitThink ==
    /\ \E events \in RenderedStreams, include_reasoning \in BOOLEAN :
         th = [pc |-> "next", events |-> events, k |-> 0,
               include_reasoning |-> include_reasoning,
               phase |-> "Init", think_tag_printed |-> FALSE,
               out |-> <<>>, result |-> "running"]
    /\ InitDaemon /\ ag = AgentIdle /\ sx = StatusIdle
    /\ LibIdle(LibVars \ {"th"})

\* one turn of `while let Some(event) = stream.next().await`
\* (llm.rs 394-424): `event?` returns the error at once
generate_event ==
    LET event == th.events[th.k + 1]
        closes == th.phase = "Thinking" /\ th.think_tag_printed
        opens == /\ th.include_reasoning /\ th.phase = "Init"
                 /\ ~th.think_tag_printed
    IN
    /\ th.pc = "next"
    /\ th.k < Len(th.events)
    /\ CASE event.kind = "Err" ->
              th' = [th EXCEPT !.pc = "done", !.result = "Err", !.k = @ + 1]
         [] event.kind = "Content" ->
              th' = [th EXCEPT
                       !.k = @ + 1,
                       !.phase = "Responding",
                       !.think_tag_printed = IF th.phase = "Thinking"
                                             THEN FALSE ELSE @,
                       !.out = (IF closes THEN Append(@, CloseThink) ELSE @)
                               \o <<event.text>>]
         [] event.kind = "Reasoning" ->
              IF ~th.include_reasoning THEN th' = [th EXCEPT !.k = @ + 1]
              ELSE th' = [th EXCEPT
                       !.k = @ + 1,
                       !.phase = IF th.phase = "Init" THEN "Thinking" ELSE @,
                       !.think_tag_printed = IF th.phase = "Init"
                                             THEN TRUE ELSE @,
                       !.out = (IF opens THEN Append(@, OpenThink) ELSE @)
                               \o (IF th.phase \in {"Init", "Thinking"}
                                   THEN <<event.text>> ELSE <<>>)]
    /\ UNCHANGED others_th

\* the stream has ended (llm.rs 427-432)
generate_end ==
    /\ th.pc = "next"
    /\ th.k = Len(th.events)
    /\ th' = [th EXCEPT
                !.pc = "done", !.result = "Ok",
                !.out = IF th.think_tag_printed THEN Append(@, CloseThink)
                        ELSE @]
    /\ UNCHANGED others_th

NextThink == generate_event \/ generate_end
SpecThink == InitThink /\ [][NextThink]_vars

\* how often token is in the first n places of out
CountIn(out, n, token) ==
    Cardinality({i \in 1..n : out[i] = token})
\* place i of out lies between a <think> and its </think>
InsideThink(out, i) ==
    CountIn(out, i, OpenThink) > CountIn(out, i, CloseThink)
\* the first event of a kind (0: none)
FirstOf(events, kind) ==
    IF \E i \in 1..Len(events) : events[i].kind = kind
    THEN CHOOSE i \in 1..Len(events) :
           /\ events[i].kind = kind
           /\ \A j \in 1..(i - 1) : events[j].kind # kind
    ELSE 0

\* C33: with reasoning enabled, when the rendering is over (the stream has
\* ended or has yielded an error) every <think> written is matched by one
\* </think>, the output holds a <think> if the stream held a Reasoning
\* event, no Content text is inside the tags, and the tag is open only
\* while the loop is in its Thinking phase.
C33_ThinkTagsBalanced ==
    (th.pc \in {"next", "done"} /\ th.include_reasoning) =>
        /\ th.pc = "done" =>
              /\ CountIn(th.out, Len(th.out), OpenThink)
                    = CountIn(th.out, Len(th.out), CloseThink)
              /\ FirstOf(th.events, "Reasoning") # 0
                    => CountIn(th.out, Len(th.out), OpenThink) = 1
        /\ \A i \in 1..Len(th.out) :
              th.out[i] = ContentEvent.text => ~InsideThink(th.out, i)

\* ------------------------------------------------- escape and unescape
\* Two schemes: the backslash before "<" (hinata-core escaping.rs: escape
\* and unescape above) and the underscore in an hnt tag (libhinata-core
\* escaping.rs, where the two functions are also named escape and unescape).
MaxEscaped == 5    \* atoms of a text that is escaped and unescaped

HntRoleAtoms == {"hnt-user", "hnt-assistant", "hnt-system"}

\* the underscores of t from place i on
RECURSIVE UnderscoresFrom(_, _)
UnderscoresFrom(t, i) ==
    IF i <= Len(t) /\ t[i] = "_" THEN 1 + UnderscoresFrom(t, i + 1) ELSE 0

\* Regex <(/?)(_*)(hnt-(user|assistant|system))> at the head of t: the
\* captures and the length of the match (len 0: no match)
TagMatch(t) ==
    LET slash == IF Len(t) >= 2 /\ t[2] = "/" THEN 1 ELSE 0
        n == UnderscoresFrom(t, 2 + slash)
        r == 2 + slash + n
    IN IF /\ t # <<>> /\ t[1] = "<"
          /\ r + 1 <= Len(t) /\ t[r] \in HntRoleAtoms /\ t[r + 1] = ">"
       THEN [len |-> r + 1, slash |-> slash, underscores |-> n,
             hnt_role |-> t[r]]
       ELSE [len |-> 0, slash |-> 0, underscores |-> 0, hnt_role |-> ""]

\* format!("<{}{}{}>", slash, underscores, hnt_role)
TagText(slash, underscores, hnt_role) ==
    <<"<">> \o (IF slash = 1 THEN <<"/">> ELSE <<>>)
            \o [i \in 1..underscores |-> "_"] \o <<hnt_role, ">">>

RECURSIVE escape_hnt(_)
\* escape of libhinata-core: replace_all, one more underscore in every tag
escape_hnt(t) ==
    IF t = <<>> THEN <<>>
    ELSE LET m == TagMatch(t) IN
         IF m.len > 0
         THEN TagText(m.slash, m.underscores + 1, m.hnt_role)
              \o escape_hnt(SubSeq(t, m.len + 1, Len(t)))
         ELSE <<Head(t)>> \o escape_hnt(Tail(t))

RECURSIVE unescape_hnt_all(_)
\* an unescape that takes all the underscores out of a tag
unescape_hnt_all(t) ==
    IF t = <<>> THEN <<>>
    ELSE LET m == TagMatch(t) IN
         IF m.len > 0 /\ m.underscores > 0
         THEN TagText(m.slash, 0, m.hnt_role)
              \o unescape_hnt_all(SubSeq(t, m.len + 1, Len(t)))
         ELSE <<Head(t)>> \o unescape_hnt_all(Tail(t))

RECURSIVE unescape_hnt(_)
\* unescape of libhinata-core: the Regex with (_+), one underscore less
unescape_hnt(t) ==
    IF t = <<>> THEN <<>>
    ELSE LET m == TagMatch(t) IN
         IF m.len > 0 /\ m.underscores > 0
         THEN TagText(m.slash, m.underscores - 1, m.hnt_role)
              \o unescape_hnt(SubSeq(t, m.len + 1, Len(t)))
         ELSE <<Head(t)>> \o unescape_hnt(Tail(t))

\* the texts: all short texts of the atoms of either scheme, and some
\* longer ones with nested and already escaped tags
EscapeAtoms == {"<", Backslash, "/", "_", "hnt-user", ">"}
EscapeInputs ==
    SeqsUpTo(EscapeAtoms, MaxEscaped)
    \cup {<<"<", "hnt-user", ">", "<", "_", "hnt-user", ">">>,
          <<"<", "/", "_", "_", "hnt-system", ">">>,
          <<"<", "<", "hnt-assistant", ">", ">">>,
          <<Backslash, Backslash, "<", "<", Backslash, "<">>,
          <<"<", "_", "hnt-user", ">", "a", "<", "/", "_", "hnt-user", ">">>}

InitEscape ==
    /\ \E x \in EscapeInputs, scheme \in {"backslash", "underscore"} :
         es = [pc |-> "escape", scheme |-> scheme, x |-> x,
               escaped |-> <<>>, unescaped |-> <<>>]
    /\ InitDaemon /\ ag = AgentIdle /\ sx = StatusIdle
    /\ LibIdle(LibVars \ {"es"})

do_escape ==
    /\ es.pc = "escape"
    /\ es' = [es EXCEPT !.pc = "unescape",
                        !.escaped = IF es.scheme = "backslash"
                                    THEN escape(es.x) ELSE escape_hnt(es.x)]
    /\ UNCHANGED others_es

do_unescape ==
    /\ es.pc = "unescape"
    /\ es' = [es EXCEPT !.pc = "done",
                        !.unescaped = IF es.scheme = "backslash"
                                      THEN unescape(es.escaped)
                                      ELSE unescape_hnt(es.escaped)]
    /\ UNCHANGED others_es

NextEscape == do_escape \/ do_unescape
SpecEscape == InitEscape /\ [][NextEscape]_vars

\* C34: in either scheme unescape(escape(x)) = x for every text x.
C34_UnescapeInvertsEscape ==
    es.pc = "done" => es.unescaped = es.x

\* a text that held escaped forms before it was escaped once more
C34_Witness ==
    /\ es.pc = "done"
    /\ es.unescaped = es.x
    /\ es.escaped # es.x
    /\ es.x # unescape(es.x)
    /\ es.x # unescape_hnt(es.x)

\* ----------------------------------------- the rendezvous of one command
\* no exit is called and nothing in the environment fails: a daemon that
\* serves goes on serving
DaemonStaysLive == faults = 0 /\ NCalls("exit") = 0
\* the payload of the call of client c is written and the call waits
WaitsForCommand(c) == cl[c].pc = "outputs"
\* the call of client c has returned
CallOver(c) == cl[c].pc = "idle"
\* the status FIFO is opened after both output streams are at end-of-file
StatusAfterOutputs(c) ==
    cl[c].pc = "status" => (cl[c].t["out"] = "done" /\ cl[c].t["err"] = "done")

\* C35: while the daemon stays live, every exec_captured call whose payload
\* was written returns in the end, and a call reads its status only after
\* its stdout and stderr streams reached end-of-file.
C35_ExecCapturedReturns ==
    /\ [](\A c \in Clients : StatusAfterOutputs(c))
    /\ []DaemonStaysLive =>
          \A c \in Clients : WaitsForCommand(c) ~> CallOver(c)

\* ------------------------------------ the messages of one agent run
\* the messages a stream completion without error is followed by: after
\* an assistant-reasoning message comes the assistant message, after an
\* assistant message one user-role message, and after that user-role
\* message no second one
Grouped(msgs) ==
    \A i \in 1..Len(msgs) :
        /\ msgs[i].role = "assistant-reasoning" =>
              i < Len(msgs) /\ msgs[i + 1].role = "assistant"
        /\ (msgs[i].role = "assistant" /\ i > 1) =>
              msgs[i - 1].role \in {"user", "assistant-reasoning"}
        /\ (msgs[i].role = "assistant" /\ i < Len(msgs)) =>
              msgs[i + 1].role = "user"
        /\ (msgs[i].role = "assistant" /\ i + 2 <= Len(msgs)) =>
              msgs[i + 2].role \in {"assistant", "assistant-reasoning"}
NewestIsUser(msgs) == msgs # <<>> /\ msgs[Len(msgs)].role = "user"
\* the assistant messages among msgs
Assistants(msgs) == {i \in 1..Len(msgs) : msgs[i].role = "assistant"}

\* C36: in every step of an agent run, the conversation that is packed ends
\* with a user-role message; a stream completion without error appends at
\* most one assistant-reasoning message and then exactly one assistant
\* message, and what follows it up to the next PACK is exactly one
\* user-role message; a retry after an LLM error appends nothing.
C36_MessagesOfATurn ==
    [][/\ ag'.pc \in {"pack", "stream"} => NewestIsUser(ag'.msgs)
       /\ ag'.pc # "idle" => Grouped(ag'.msgs)
       /\ (ag.pc = "persist" /\ ag'.pc = "extract") =>
             /\ Cardinality(Assistants(ag'.msgs))
                   = Cardinality(Assistants(ag.msgs)) + 1
             /\ Len(ag'.msgs) - Len(ag.msgs) \in {1, 2}
       /\ (ag.pc = "llm_error" /\ ag'.pc = "pack") => ag'.msgs = ag.msgs
      ]_vars

\* the second PACK of a run, behind a reasoning, an assistant and a
\* shell-result message
C36_Witness ==
    /\ ag.pc = "pack"
    /\ ag.turn_counter = 2
    /\ Len(ag.msgs) >= 4
    /\ ag.msgs[Len(ag.msgs) - 2].role = "assistant-reasoning"
    /\ ag.msgs[Len(ag.msgs) - 1].role = "assistant"
    /\ ag.msgs[Len(ag.msgs)].role = "user"

\* --------------------------------------- one byte stream, cut in chunks
MaxCuts == 3       \* places at which the network cuts one byte stream

TwoByteText == <<DataPrefix, "{content:", "0xC3", "0xA9", "}">>
\* what a server sends as one response
ByteStreams ==
    {<<DataPrefix, "{content}", CR, LF, CR, LF,
       DataPrefix, "{reasoning_content,content}", LF, LF>>,
     TwoByteText \o <<LF, LF, DataPrefix, Done, LF, LF,
                      DataPrefix, "{content}", LF, LF>>,
     <<"event: x", LF, DataPrefix, "{reasoning}", CR, LF, LF, CR, LF, CR, LF,
       DataPrefix, "{content}", LF, LF>>,
     <<DataPrefix, "{content}", LF, LF, DataPrefix, "{reasoning}">>,
     <<DataPrefix, "{content}", LF, CR, LF, LF, LF>> \o TwoByteText
       \o <<CR, LF, CR, LF>>}

RECURSIVE CutAt(_, _, _)
\* the chunks of bytes when it is cut behind the places in cuts
CutAt(bytes, cuts, from) ==
    IF cuts = {} THEN <<SubSeq(bytes, from, Len(bytes))>>
    ELSE LET c == CHOOSE x \in cuts : \A y \in cuts : x <= y
         IN <<SubSeq(bytes, from, c)>> \o CutAt(bytes, cuts \ {c}, c + 1)

CutSets(n) == {cuts \in SUBSET (1..(n - 1)) : Cardinality(cuts) <= MaxCuts}

InitChunks ==
    /\ \E bytes \in ByteStreams : \E cuts \in CutSets(Len(bytes)) :
         ls = [pc |-> "request", net |-> CutAt(bytes, cuts, 1),
               all |-> CutAt(bytes, cuts, 1), buffer |-> <<>>,
               received |-> <<>>, done |-> FALSE, out |-> <<>>]
    /\ InitDaemon /\ ag = AgentIdle /\ sx = StatusIdle
    /\ LibIdle(LibVars \ {"ls"})
SpecChunks == InitChunks /\ [][NextStream]_vars

RECURSIVE Flat(_)
\* the bytes of a sequence of chunks
Flat(chunks) ==
    IF chunks = <<>> THEN <<>> ELSE Head(chunks) \o Flat(Tail(chunks))

RECURSIVE DecodeBlocks(_)
\* the events of a byte stream that comes as one chunk: the inner loop of
\* stream_llm_response over the whole buffer
DecodeBlocks(buffer) ==
    LET term == find_sse_terminator(buffer)
        r == ProcessLines(SplitLF(SubSeq(buffer, 1, term.pos - 1)))
    IN IF term.pos = 0 THEN <<>>
       ELSE r.events \o
            (IF r.done THEN <<>>
             ELSE DecodeBlocks(SubSeq(buffer, term.pos + term.len,
                                      Len(buffer))))

\* the request went through
Answered == \A i \in 1..Len(ls.out) : ls.out[i].kind # "Err"

\* C37: however the byte stream is cut into chunks, the stream yields the
\* events it yields when the bytes come as one chunk.
C37_ChunkingDoesNotMatter ==
    (ls.pc = "ended" /\ Answered) => ls.out = DecodeBlocks(Flat(ls.all))

\* a stream cut inside a terminator, inside a data line and inside a
\* two-byte character
C37_Witness ==
    /\ ls.pc = "ended" /\ Answered
    /\ Len(ls.all) = 4
    /\ ls.all[1] = <<DataPrefix, "{content}", LF, CR, LF, LF>>
    /\ ls.all[2] = <<LF, DataPrefix>>
    /\ ls.all[3] = <<"{content:", "0xC3">>
    /\ ls.out = <<Content(<<"c">>), Content(<<"0xC3", "0xA9">>)>>

\* ------------------------------------ two sessions used by one process
\* One process runs two exec_captured calls concurrently (two tasks), call
\* i on session i, whose daemon and shell are live.  The three paths of a
\* call are made of the pid alone (lib.rs 151-154), so both calls use the
\* same paths.  An object at a path is the FIFO made by call i (i), a
\* regular file (-1) or nothing (0).
NTwoCalls == 2     \* concurrent calls of the one process
TwoCalls == 1..NTwoCalls
MkfifoOrder == <<"out", "err", "status">>
OpenFailed == -2

TwoCallStart ==
    [pc |-> "idle", n |-> 0,
     rd |-> [K \in Kinds |-> 0],      \* the object each open for reading got
     eof |-> [K \in Kinds |-> FALSE], \* the stream has ended
     recv |-> [K \in Kinds |-> 0],    \* whose script's bytes were read
     result |-> "none", stdout |-> 0, stderr |-> 0, exit_status |-> 0]
TwoShellStart == [pc |-> "idle", to |-> [K \in Kinds |-> 0]]

InitTwo ==
    /\ tw = [paths |-> [K \in Kinds |-> 0],
             call |-> [i \in TwoCalls |-> TwoCallStart],
             shell |-> [i \in TwoCalls |-> TwoShellStart],
             removed |-> {}]          \* <<by, owner>> of each remove_file
    /\ InitDaemon /\ ag = AgentIdle /\ sx = StatusIdle
    /\ LibIdle(LibVars \ {"tw"})

\* the FIFOs that the drop of call i's cleaner removes
RemovedBy(i) ==
    {<<i, tw.paths[K]>> : K \in {k \in Kinds : tw.paths[k] > 0}}

\* the call ends: its value, and FifoCleaner::drop on the three paths
TwoReturn(i, result, so, se, st) ==
    tw' = [tw EXCEPT
             !.paths = FifoCleanerDrop(@),
             !.removed = @ \cup RemovedBy(i),
             !.call[i].pc = "done", !.call[i].result = result,
             !.call[i].stdout = so, !.call[i].stderr = se,
             !.call[i].exit_status = st]

\* lines 145-162: the session exists, the cleaner is registered
two_start(i) ==
    /\ tw.call[i].pc = "idle"
    /\ tw' = [tw EXCEPT !.call[i].pc = "mkfifo"]
    /\ UNCHANGED others_tw

\* lines 164-166: one mkfifo(..)?; EEXIST when something is at the path
two_mkfifo(i) ==
    LET K == MkfifoOrder[tw.call[i].n + 1] IN
    /\ tw.call[i].pc = "mkfifo"
    /\ IF tw.paths[K] # 0
       THEN TwoReturn(i, "Nix", 0, 0, 0)
       ELSE tw' = [tw EXCEPT
                     !.paths[K] = i,
                     !.call[i].n = @ + 1,
                     !.call[i].pc = IF tw.call[i].n = 2 THEN "send"
                                    ELSE "mkfifo"]
    /\ UNCHANGED others_tw

\* lines 168-198: the payload goes to the daemon of session i, which hands
\* the command line to its shell; the two reader tasks are spawned
two_send(i) ==
    /\ tw.call[i].pc = "send"
    /\ tw' = [tw EXCEPT !.call[i].pc = "outputs",
                        !.shell[i].pc = "pending"]
    /\ UNCHANGED others_tw

\* tokio::fs::File::open(&out_fifo_path) / (&err_fifo_path) of a reader
\* task: the object at the path, whoever made it; the task ends with an
\* empty string when nothing is there, and at once on a regular file
two_open_read(i, K) ==
    /\ tw.call[i].pc = "outputs"
    /\ K \in {"out", "err"}
    /\ tw.call[i].rd[K] = 0
    /\ tw' = [tw EXCEPT
                !.call[i].rd[K] = IF tw.paths[K] = 0 THEN OpenFailed
                                  ELSE tw.paths[K],
                !.call[i].eof[K] = tw.paths[K] <= 0]
    /\ UNCHANGED others_tw

\* the calls that hold the FIFO obj open for reading at path K
ReadersOf(K, obj) ==
    {j \in TwoCalls : tw.call[j].rd[K] = obj /\ ~tw.call[j].eof[K]}

\* a redirection of the shell of session i: the open for writing creates a
\* regular file when nothing is at the path, and blocks on a FIFO until it
\* has a reader
shell_two_open(i, K) ==
    LET obj == IF tw.paths[K] = 0 THEN -1 ELSE tw.paths[K] IN
    /\ \/ tw.shell[i].pc = "pending" /\ K = "out"
       \/ tw.shell[i].pc = "out" /\ K = "err"
       \/ tw.shell[i].pc = "ran" /\ K = "status"
    /\ obj > 0 => ReadersOf(K, obj) # {}
    /\ tw' = [tw EXCEPT !.paths[K] = obj,
                        !.shell[i].to[K] = obj,
                        !.shell[i].pc = K]
    /\ UNCHANGED others_tw

\* the bytes written to the object at K by the shell of session i reach one
\* of the readers of the object; all its readers see end-of-file
Delivered2(c, i, K, r) ==
    LET obj == tw.shell[i].to[K] IN
    IF obj > 0 /\ c \in ReadersOf(K, obj)
    THEN [tw.call[c] EXCEPT !.eof[K] = TRUE,
                            !.recv[K] = IF c = r THEN i ELSE @]
    ELSE tw.call[c]

\* the script of session i runs and its output files are closed
shell_two_run(i) ==
    /\ tw.shell[i].pc = "err"
    /\ \E ro \in TwoCalls, re \in TwoCalls :
         /\ tw.shell[i].to["out"] > 0 =>
               ro \in ReadersOf("out", tw.shell[i].to["out"])
         /\ tw.shell[i].to["err"] > 0 =>
               re \in ReadersOf("err", tw.shell[i].to["err"])
         /\ tw' = [tw EXCEPT
                     !.shell[i].pc = "ran",
                     !.call = [c \in TwoCalls |->
                        LET a == Delivered2(c, i, "out", ro)
                            b == Delivered2(c, i, "err", re)
                        IN [a EXCEPT !.eof["err"] = b.eof["err"],
                                     !.recv["err"] = b.recv["err"]]]]
    /\ UNCHANGED others_tw

\* out_handle.await, err_handle.await, then the open of the status path
\* (lines 200-204); the open fails when nothing is there
two_join(i) ==
    /\ tw.call[i].pc = "outputs"
    /\ tw.call[i].eof["out"] /\ tw.call[i].eof["err"]
    /\ IF tw.paths["status"] = 0
       THEN TwoReturn(i, "Io", 0, 0, 0)
       ELSE tw' = [tw EXCEPT
                     !.call[i].pc = "status",
                     !.call[i].rd["status"] = tw.paths["status"],
                     !.call[i].eof["status"] = tw.paths["status"] < 0]
    /\ UNCHANGED others_tw

\* echo $ec > status of the shell of session i
shell_two_status(i) ==
    /\ tw.shell[i].pc = "status"
    /\ \E r \in TwoCalls :
         /\ tw.shell[i].to["status"] > 0 =>
               r \in ReadersOf("status", tw.shell[i].to["status"])
         /\ tw' = [tw EXCEPT
                     !.shell[i].pc = "done",
                     !.call = [c \in TwoCalls |->
                                 Delivered2(c, i, "status", r)]]
    /\ UNCHANGED others_tw

\* lines 205-214: the status is read to end-of-file, Ok(ExecOutput)
two_return(i) ==
    /\ tw.call[i].pc = "status"
    /\ tw.call[i].eof["status"]
    /\ TwoReturn(i, "Ok", tw.call[i].recv["out"], tw.call[i].recv["err"],
                 tw.call[i].recv["status"])
    /\ UNCHANGED others_tw

NextTwo ==
    \E i \in TwoCalls :
        \/ two_start(i) \/ two_mkfifo(i) \/ two_send(i)
        \/ \E K \in Kinds : two_open_read(i, K) \/ shell_two_open(i, K)
        \/ shell_two_run(i) \/ two_join(i) \/ shell_two_status(i)
        \/ two_return(i)
SpecTwo == InitTwo /\ [][NextTwo]_vars

\* C38: of two concurrent calls of one process on two sessions, each
\* returns the output and the exit status of its own script, no call
\* removes a FIFO that the other call made, and no call reads one.
C38_TwoSessionsDoNotInterfere ==
    /\ \A x \in tw.removed : x[1] = x[2]
    /\ \A i \in TwoCalls :
          /\ \A K \in Kinds : tw.call[i].rd[K] \in {0, i}
          /\ tw.call[i].pc = "done" =>
                /\ tw.call[i].result = "Ok"
                /\ tw.call[i].stdout = i
                /\ tw.call[i].stderr = i
                /\ tw.call[i].exit_status = i

====
